---- MODULE Spec2Model ----
(***************************************************************************)
(* Verification model of the hashsummer scan pipeline.                     *)
(*                                                                         *)
(* Part 1: hasher/runner.rs, ScanRunner: one scheduler thread, a reader    *)
(*         pool and a worker pool, a per-file bounded channel, the shared  *)
(*         LendingStack of read buffers and the Permits semaphore.         *)
(* Part 2: hasher/runner.rs, Permits on its own, driven by client threads, *)
(*         and the scenario of tests::test_permits.                        *)
(* Part 3: utils/lifo.rs, LendingStack on its own, driven by client        *)
(*         threads.                                                        *)
(* Part 4: utils/bungee.rs, the reverse-readable VarInt<usize> and the     *)
(*         bungee arena BungeeBytes<VarInt<usize>> / BungeeStr.            *)
(* Part 5: store/mod.rs, DiffingIter over two slices of entries.           *)
(***************************************************************************)
EXTENDS Integers, Sequences, FiniteSets, TLC

\* ------------------------------------------------------------------------
\* Bounds of the model
\* ------------------------------------------------------------------------

\* Paths the input iterator can yield (it may end earlier).
NumFiles == 2

\* Full chunks one file can yield before its read reports EOF or an error.
MaxChunks == 1

Files == 1..NumFiles

\* Threads that call a Permits of their own (Part 2), the calls they make in
\* all and the largest small count one call passes (usize::MAX is passed too)
PmNumThreads == 3

PmMaxOps == 4

PmMaxCount == 1

PmThreads == 1..PmNumThreads

\* test_permits scenarios: the largest initial count and number of add_permit calls
TpMaxInit == 3

TpMaxAdds == 3

\* Threads that share a LendingStack of their own (Part 3) and the most
\* elements it is constructed with
LsNumThreads == 2

LsMaxElems == 1

LsThreads == 1..LsNumThreads

\* VarInt (Part 4): every value 0..ViMaxSmall is encoded, besides the values
\* around each power of 128
ViMaxSmall == 129

\* Bungee arena (Part 4): push calls made on one arena
BgMaxPushes == 2

\* DiffingIter (Part 5): the longest input
DfMaxLen == 2

\* ------------------------------------------------------------------------
\* usize arithmetic.  A value is hi * usize::MAX + lo with a small lo, so
\* that both ends of the 64-bit range are exact: 0, 1, 2, ... are
\* [hi 0, lo n] and usize::MAX, usize::MAX - 1, ... are [hi 1, lo -n].
\* ------------------------------------------------------------------------

Big(h, l) == [hi |-> h, lo |-> l]

USIZE(n) == Big(0, n)

USIZE_MAX == Big(1, 0)

BigAdd(a, b) == Big(a.hi + b.hi, a.lo + b.lo)

BigSub(a, b) == Big(a.hi - b.hi, a.lo - b.lo)

\* a is in 0..usize::MAX
IsUsize(a) == (a.hi = 0 /\ a.lo >= 0) \/ (a.hi = 1 /\ a.lo <= 0)

\* Option<T>: None is <<>>, Some(v) is <<v>>.
None == <<>>

Some(v) == <<v>>

checked_sub(a, b) == IF IsUsize(BigSub(a, b)) THEN Some(BigSub(a, b)) ELSE None

checked_add(a, b) == IF IsUsize(BigAdd(a, b)) THEN Some(BigAdd(a, b)) ELSE None

Max(a, b) == IF a >= b THEN a ELSE b

\* ------------------------------------------------------------------------
\* Permits (mutex + condvar).  The closure of wait_while and the body of
\* add_permits, each run under the mutex.
\* ------------------------------------------------------------------------

\* The closure given to wait_while: [perm: the count it leaves, wait: its result]
wait_for_permits_Broken(perm, count) ==
    [perm |-> BigSub(perm, count), wait |-> FALSE]

wait_for_permits(perm, count) ==
    LET rem == checked_sub(perm, count)
    IN  IF rem # None THEN [perm |-> rem[1], wait |-> FALSE]
                      ELSE [perm |-> perm, wait |-> TRUE]

wait_for_permit(perm) == wait_for_permits(perm, USIZE(1))

\* add_permits: [perm: the count it leaves, notify: whether notify_all ran]
add_permits_NoNotify(perm, count) ==
    LET value == checked_add(perm, count)
    IN  IF value # None THEN [perm |-> value[1], notify |-> FALSE]
                        ELSE [perm |-> perm, notify |-> FALSE]

add_permits_Wrapping(perm, count) ==
    LET value == checked_add(perm, count)
    IN  IF value # None THEN [perm |-> value[1], notify |-> TRUE]
                        ELSE [perm |-> BigSub(BigAdd(perm, count), Big(1, 1)), notify |-> TRUE]

add_permits(perm, count) ==
    LET value == checked_add(perm, count)
    IN  IF value # None THEN [perm |-> value[1], notify |-> TRUE]
                        ELSE [perm |-> perm, notify |-> FALSE]

add_permit(perm) == add_permits(perm, USIZE(1))

\* ------------------------------------------------------------------------
\* RunnerConfig and the InnerConfig ScanRunner::run derives from it
\* ------------------------------------------------------------------------

\* Floor of buffer_chunk_size
MinChunkSize == 16

\* The configurations explored (DriveType::Custom gives the thread counts):
\* every floor of ScanRunner::run with a zero-capacity channel and one permit;
\* two buffers with one per file; more readers than workers; more workers
\* than readers.
RunnerConfigs ==
    { [permits |-> 1, buffer_chunk_size |-> 4, max_buffer_chunks |-> 0,
       max_buffer_chunks_per_file |-> 0, read_threads |-> 0, processing_threads |-> 0],
      [permits |-> 1, buffer_chunk_size |-> 32, max_buffer_chunks |-> 2,
       max_buffer_chunks_per_file |-> 1, read_threads |-> 1, processing_threads |-> 1],
      [permits |-> 2, buffer_chunk_size |-> 32, max_buffer_chunks |-> 2,
       max_buffer_chunks_per_file |-> 2, read_threads |-> 2, processing_threads |-> 1],
      [permits |-> 2, buffer_chunk_size |-> 32, max_buffer_chunks |-> 1,
       max_buffer_chunks_per_file |-> 0, read_threads |-> 1, processing_threads |-> 2] }

InnerConfig(cfg) ==
    [ read_threads |-> Max(cfg.read_threads, 1),
      hash_threads |-> Max(cfg.processing_threads, 1),
      chunk_size   |-> Max(cfg.buffer_chunk_size, MinChunkSize),
      chan_bound   |-> cfg.max_buffer_chunks_per_file,
      max_permits  |-> cfg.permits,
      num_chunks   |-> Max(cfg.max_buffer_chunks, 1) ]

\* ChunkData::zero(): an empty array
ChunkDataZero == [capacity |-> 0]

\* ------------------------------------------------------------------------
\* State
\* ------------------------------------------------------------------------
VARIABLES
    cfg,            \* the RunnerConfig given to ScanRunner::run
    flag,           \* InnerConfig.flag, the keep-going flag
    permits,        \* the count inside InnerConfig.permits
    data_chunks,    \* InnerConfig.data_chunks: the Vec inside the LendingStack
    iter_taken,     \* paths the scheduler has pulled from the iterator
    sched,          \* the scheduler thread: [pc, file]
    reader_queue,   \* tasks submitted to reader_pool and not yet started
    worker_queue,   \* tasks submitted to worker_pool and not yet started
    rpc,            \* per file: where its reader task is
    rbuf,           \* per file: the chunk its reader holds (<<>> or <<chunk>>)
    rcnt,           \* per file: chunks its reader has read
    rres,           \* per file: outcome of File::open / the last read_from
    tx,             \* per file: the channel's Sender is alive
    chan,           \* per file: the chunks queued in its channel
    wpc,            \* per file: where its worker task is
    wbuf,           \* per file: the chunk its worker holds
    hasher,         \* per file: the data given to update_file, in order
    recycled,       \* per file: chunks its worker pushed back on the stack
    finished,       \* per file: calls of finish_consume
    errors,         \* per file: calls of on_error
    released,       \* per file: permits its worker released
    client,         \* the owner of the ScanRunner handle
    late,           \* files whose tasks were submitted with the flag already cleared
    \* Permits on its own (Part 2)
    pmInit,         \* the count given to Permits::new
    pmPerm,         \* the count inside the mutex
    pmPc,           \* per thread: "idle", "check" (in wait_while, awake), "sleep" (on the condvar)
    pmArg,          \* per thread: the count of its wait_for_permits call
    pmOps,          \* calls made by all threads
    pmBalance,      \* pmInit + every count given to add_permits - every count acquired
    pmOverflowed,   \* the counts given to add_permits calls whose sum overflowed
    tpProg,         \* test_permits: [init, pre, adds] of the scenario
    tpCalls,        \* test_permits: wait_for_permit calls the main thread has made
    tpSpawned,      \* test_permits: the second thread has been spawned
    tpAdded,        \* test_permits: add_permit calls the second thread has made
    \* LendingStack on its own (Part 3)
    lsMax,          \* InnerLifo.max
    lsElems,        \* InnerLifo.elements: the Vec inside the mutex
    lsPc,           \* per thread: "idle", "wait" (in condvar.wait), "woken", "notify"
    lsHeld,         \* per thread: the values it owns
    lsRet,          \* per thread: its last completed call [op, arg, ret]
    \* VarInt<usize> (Part 4)
    viVal,          \* the usize to encode
    viPre,          \* bytes in front of the encoding, for reverse_read
    viPost,         \* bytes behind the encoding, for read
    viBuf,          \* None, or Some(the bytes write produced)
    viFwd,          \* None, or Some(what read returned)
    viRev,          \* None, or Some(what reverse_read returned)
    \* BungeeBytes<VarInt<usize>> / BungeeStr (Part 4)
    bgData,         \* BungeeBytes.data: the arena bytes
    bgLog,          \* the records pushed, in order: [index, prev, data]
    bgCall,         \* the last push call: [prev, data, ret], and the calls made
    bgIter,         \* None, or Some(BungeeFollowIter): [at, last, ended]
    bgYield,        \* the items the iterator has yielded: [data, index]
    bgPath,         \* None, or Some([sep, at, result]) of the last path_of
    \* DiffingIter (Part 5)
    dfOldAll,       \* the items of the old input, as given
    dfNewAll,       \* the items of the new input, as given
    dfOld,          \* DiffingIter.old: the items the old iterator has left
    dfNew,          \* DiffingIter.new: the items the new iterator has left
    curr_old,       \* DiffingIter.curr_old
    curr_new,       \* DiffingIter.curr_new
    dfOut,          \* the records next() has returned
    dfPc            \* "input", "iter" (constructed), "ended" (next returned None)

runnerVars == << cfg, flag, permits, data_chunks, iter_taken, sched, reader_queue,
                 worker_queue, rpc, rbuf, rcnt, rres, tx, chan, wpc, wbuf, hasher,
                 recycled, finished, errors, released, client, late >>

pmVars == << pmInit, pmPerm, pmPc, pmArg, pmOps, pmBalance, pmOverflowed,
            tpProg, tpCalls, tpSpawned, tpAdded >>

lsVars == << lsMax, lsElems, lsPc, lsHeld, lsRet >>

viVars == << viVal, viPre, viPost, viBuf, viFwd, viRev >>

bgVars == << bgData, bgLog, bgCall, bgIter, bgYield, bgPath >>

dfVars == << dfOldAll, dfNewAll, dfOld, dfNew, curr_old, curr_new, dfOut, dfPc >>

\* Part 6: two HashArray<N> values and the result of comparing them
VARIABLES
    haA,            \* self: the N bytes of a HashArray<N>
    haB,            \* other: the N bytes of a second HashArray<N>
    haCmp           \* Some(self.cmp(&other)) after a call, None before

haVars == << haA, haB, haCmp >>

\* Part 7: a HashesChunk, the stream it is written to and read from, and a
\* HashesIterChunk over that stream
VARIABLES
    hcChunk,        \* None or Some([data, sort, name_hash, data_hash])
    hcStream,       \* the bytes of the stream
    hcRead,         \* Some(io::Result) of the last HashesChunk::read, else None
    hcOp,           \* the last operation that changed the chunk or the stream
    hcIter,         \* None or Some([header, reader, count]): a HashesIterChunk
    hcYield         \* what next() returned so far, in call order

hcVars == << hcChunk, hcStream, hcRead, hcOp, hcIter, hcYield >>

\* Part 8: an AveragePerTick, one thread inside sample_now, and what was
\* really appended
VARIABLES
    current,        \* AveragePerTick.current: a u64
    ticks,          \* AveragePerTick.ticks: the MovingAvg [array, index]
    apCall,         \* the running sample_now: [pc, collected]
    apHist          \* [pending, taken, samples, calls, appended]: the exact sums

apVars == << current, ticks, apCall, apHist >>

\* Part 9: one call of with_counted_read
VARIABLES
    crCall,         \* [count, reads, ret, checks]: the caller's counter, what the
                    \* reads of the callback return, what the callback returns,
                    \* and whether the build checks arithmetic overflow
    crRes           \* None, or Some([panic, result, count]) once the call is over

crVars == << crCall, crRes >>

\* Part 10: a stream and the result of MainHeader::read on it
VARIABLES
    mhStream,       \* the bytes of the stream
    mhRes           \* None, or Some(io::Result<(MainHeader, u64)>) of the read

mhVars == << mhStream, mhRes >>

\* Part 11: a directory tree and a DepthFileScanner over it
VARIABLES
    fsTree,         \* the directory tree under the root: path -> kind of node
    fsOrder,        \* the order in which the OS lists a directory
    fsScanner,      \* None, or Some(DepthFileScanner): its current and stack
    fsRet,          \* what next_file returned since from_dir / reset_from_dir,
                    \* in call order: each an Option<FileEntry>
    fsSave          \* None, or Some(SaveToBungee) once save_to_bungee took the
                    \* scanner: it, dirs, the arena and converter of its
                    \* closures, and what next returned so far

fsVars == << fsTree, fsOrder, fsScanner, fsRet, fsSave >>

\* Part 12: a HashZeroChunksFinder and the FileState of one file
VARIABLES
    zfMinSize,      \* HashZeroChunksFinder.min_size
    zfState,        \* the FileState (bytes, Option<run start>, found) as a tuple
    zfFed           \* the data of all update_file calls so far, concatenated

zfVars == << zfMinSize, zfState, zfFed >>

\* Part 13: a MergeSortedWith over two sorted inputs
VARIABLES
    msIn,           \* the two inputs as they were given to new: [a, b]
    msIter,         \* None, or Some(MergeSorted): ia, ib, last, from_a
    msOut           \* what next returned so far, in call order

msVars == << msIn, msIter, msOut >>

vars == << runnerVars, pmVars, lsVars, viVars, bgVars, dfVars, haVars, hcVars, apVars, crVars, mhVars, fsVars, zfVars, msVars >>

\* What the actions of one part leave alone
restVars == << lsVars, viVars, bgVars, dfVars, haVars, hcVars, apVars, crVars, mhVars, fsVars, zfVars, msVars >>

notRunner == << pmVars, restVars >>

notPermits == << runnerVars, restVars >>

notLifo == << runnerVars, pmVars, viVars, bgVars, dfVars, haVars, hcVars, apVars, crVars, mhVars, fsVars, zfVars, msVars >>

notVarInt == << runnerVars, pmVars, lsVars, bgVars, dfVars, haVars, hcVars, apVars, crVars, mhVars, fsVars, zfVars, msVars >>

notBungee == << runnerVars, pmVars, lsVars, viVars, dfVars, haVars, hcVars, apVars, crVars, mhVars, fsVars, zfVars, msVars >>

notDiff == << runnerVars, pmVars, lsVars, viVars, bgVars, haVars, hcVars, apVars, crVars, mhVars, fsVars, zfVars, msVars >>

notHashArray == << runnerVars, pmVars, lsVars, viVars, bgVars, dfVars, hcVars, apVars, crVars, mhVars, fsVars, zfVars, msVars >>

notChunk == << runnerVars, pmVars, lsVars, viVars, bgVars, dfVars, haVars, apVars, crVars, mhVars, fsVars, zfVars, msVars >>

notAverage == << runnerVars, pmVars, lsVars, viVars, bgVars, dfVars, haVars, hcVars, crVars, mhVars, fsVars, zfVars, msVars >>

notCountedRead == << runnerVars, pmVars, lsVars, viVars, bgVars, dfVars, haVars, hcVars, apVars, mhVars, fsVars, zfVars, msVars >>

notMainHeader == << runnerVars, pmVars, lsVars, viVars, bgVars, dfVars, haVars, hcVars, apVars, crVars, fsVars, zfVars, msVars >>

notScanner == << runnerVars, pmVars, lsVars, viVars, bgVars, dfVars, haVars, hcVars, apVars, crVars, mhVars, zfVars, msVars >>

notZeroFinder == << runnerVars, pmVars, lsVars, viVars, bgVars, dfVars, haVars, hcVars, apVars, crVars, mhVars, fsVars, msVars >>

notMerge == << runnerVars, pmVars, lsVars, viVars, bgVars, dfVars, haVars, hcVars, apVars, crVars, mhVars, fsVars, zfVars >>

ic == InnerConfig(cfg)

\* Reader tasks that occupy a reader_pool thread / worker tasks on a worker_pool thread
ReaderRunning == { f \in Files : rpc[f] \in {"lend", "lend_wait", "send", "on_error"} }

WorkerRunning == { f \in Files : wpc[f] \in {"recv", "update", "finish", "release"} }

\* Files whose reader task has been submitted
Submitted == { f \in Files : rpc[f] # "none" }

\* The content of the i-th chunk read from file f
ChunkOf(f, i, cap) == [file |-> f, seq |-> i, capacity |-> cap]

\* The state ScanRunner::run leaves, whatever the configuration
RunnerStart ==
    /\ flag = TRUE
    /\ permits = USIZE(cfg.permits)
    /\ data_chunks = [i \in 1..Max(cfg.max_buffer_chunks, 1) |-> ChunkDataZero]
    /\ iter_taken = 0
    /\ sched = [pc |-> "loop", file |-> 0]
    /\ reader_queue = <<>>
    /\ worker_queue = <<>>
    /\ rpc = [f \in Files |-> "none"]
    /\ rbuf = [f \in Files |-> <<>>]
    /\ rcnt = [f \in Files |-> 0]
    /\ rres = [f \in Files |-> "none"]
    /\ tx = [f \in Files |-> FALSE]
    /\ chan = [f \in Files |-> <<>>]
    /\ wpc = [f \in Files |-> "none"]
    /\ wbuf = [f \in Files |-> <<>>]
    /\ hasher = [f \in Files |-> <<>>]
    /\ recycled = [f \in Files |-> 0]
    /\ finished = [f \in Files |-> 0]
    /\ errors = [f \in Files |-> 0]
    /\ released = [f \in Files |-> 0]
    /\ client = "owner"
    /\ late = 0

RunnerInit ==
    /\ cfg \in RunnerConfigs
    /\ RunnerStart

\* The runner left unused: one configuration, nothing scheduled
RunnerIdle ==
    /\ RunnerInit
    /\ cfg.max_buffer_chunks = 0

\* The Permits of Part 2 left unused
PmIdle ==
    /\ pmInit = USIZE(0)
    /\ pmPerm = USIZE(0)
    /\ pmPc = [t \in PmThreads |-> "idle"]
    /\ pmArg = [t \in PmThreads |-> USIZE(0)]
    /\ pmOps = 0
    /\ pmBalance = USIZE(0)
    /\ pmOverflowed = USIZE(0)
    /\ tpProg = [init |-> 0, pre |-> 0, adds |-> 0]
    /\ tpCalls = 0
    /\ tpSpawned = FALSE
    /\ tpAdded = 0

\* The LendingStack of Part 3 left unused
LsIdle ==
    /\ lsMax = 0
    /\ lsElems = <<>>
    /\ lsPc = [t \in LsThreads |-> "idle"]
    /\ lsHeld = [t \in LsThreads |-> {}]
    /\ lsRet = [t \in LsThreads |-> [op |-> "none", arg |-> None, ret |-> None]]

\* The VarInt of Part 4 left unused
ViIdle ==
    /\ viVal = {}
    /\ viPre = <<>>
    /\ viPost = <<>>
    /\ viBuf = None
    /\ viFwd = None
    /\ viRev = None

\* The bungee arena of Part 4 left unused
BgIdle ==
    /\ bgData = <<>>
    /\ bgLog = <<>>
    /\ bgCall = [prev |-> None, data |-> <<>>, ret |-> None, calls |-> 0]
    /\ bgIter = None
    /\ bgYield = <<>>
    /\ bgPath = None

\* The DiffingIter of Part 5 left unused
DfIdle ==
    /\ dfOldAll = <<>>
    /\ dfNewAll = <<>>
    /\ dfOld = <<>>
    /\ dfNew = <<>>
    /\ curr_old = None
    /\ curr_new = None
    /\ dfOut = <<>>
    /\ dfPc = "input"

\* The HashArray of Part 6 left unused
HaIdle ==
    /\ haA = <<>>
    /\ haB = <<>>
    /\ haCmp = None

\* The HashesChunk of Part 7 left unused
HcIdle ==
    /\ hcChunk = None
    /\ hcStream = <<>>
    /\ hcRead = None
    /\ hcOp = "none"
    /\ hcIter = None
    /\ hcYield = <<>>

\* The AveragePerTick of Part 8 left unused
ApIdle ==
    /\ current = <<>>
    /\ ticks = [array |-> <<>>, index |-> 0]
    /\ apCall = [pc |-> "idle", collected |-> <<>>]
    /\ apHist = [pending |-> <<>>, taken |-> <<>>, samples |-> <<>>, calls |-> 0, appended |-> {}]

\* The with_counted_read of Part 9 left unused
CrIdle ==
    /\ crCall = [count |-> <<>>, reads |-> <<>>, ret |-> <<>>, checks |-> FALSE]
    /\ crRes = None

\* The MainHeader of Part 10 left unused
MhIdle ==
    /\ mhStream = <<>>
    /\ mhRes = None

\* The DepthFileScanner of Part 11 left unused
FsIdle ==
    /\ fsTree = <<>>
    /\ fsOrder = "Ascending"
    /\ fsScanner = None
    /\ fsRet = <<>>
    /\ fsSave = <<>>

ZfIdle ==
    /\ zfMinSize = 0
    /\ zfState = <<>>
    /\ zfFed = <<>>

MsIdle ==
    /\ msIn = <<>>
    /\ msIter = <<>>
    /\ msOut = <<>>

\* Parts 3 and later left unused
RestIdle ==
    /\ LsIdle
    /\ ViIdle
    /\ BgIdle
    /\ DfIdle
    /\ HaIdle
    /\ HcIdle
    /\ ApIdle
    /\ CrIdle
    /\ MhIdle
    /\ FsIdle
    /\ ZfIdle
    /\ MsIdle

Init ==
    /\ RunnerInit
    /\ PmIdle
    /\ RestIdle

\* ------------------------------------------------------------------------
\* The scheduler thread: ScanRunner::scheduler_run
\* ------------------------------------------------------------------------

\* while cfg.c.flag.load(Relaxed)
SchedLoadFlag_Ignored ==
    /\ sched.pc = "loop"
    /\ sched' = [sched EXCEPT !.pc = "next"]
    /\ UNCHANGED << cfg, flag, permits, data_chunks, iter_taken, reader_queue,
                    worker_queue, rpc, rbuf, rcnt, rres, tx, chan, wpc, wbuf, hasher,
                    recycled, finished, errors, released, client, late >>
    /\ UNCHANGED notRunner

SchedLoadFlag ==
    /\ sched.pc = "loop"
    /\ sched' = [sched EXCEPT !.pc = IF flag THEN "next" ELSE "drain"]
    /\ UNCHANGED << cfg, flag, permits, data_chunks, iter_taken, reader_queue,
                    worker_queue, rpc, rbuf, rcnt, rres, tx, chan, wpc, wbuf, hasher,
                    recycled, finished, errors, released, client, late >>
    /\ UNCHANGED notRunner

\* let Some(file) = cfg.iter.next() else { break }
SchedNext ==
    /\ sched.pc = "next"
    /\ \E more \in BOOLEAN :
         IF more /\ iter_taken < NumFiles
         THEN /\ iter_taken' = iter_taken + 1
              /\ sched' = [pc |-> "acquire", file |-> iter_taken + 1]
         ELSE /\ iter_taken' = iter_taken
              /\ sched' = [sched EXCEPT !.pc = "drain"]
    /\ UNCHANGED << cfg, flag, permits, data_chunks, reader_queue,
                    worker_queue, rpc, rbuf, rcnt, rres, tx, chan, wpc, wbuf, hasher,
                    recycled, finished, errors, released, client, late >>
    /\ UNCHANGED notRunner

\* permit.wait_for_permit(): the closure runs under the mutex; when it asks to
\* wait the thread sleeps on the condvar until a notify_all.
SchedWaitPermit ==
    /\ sched.pc = "acquire"
    /\ LET r == wait_for_permit(permits)
       IN  /\ permits' = r.perm
           /\ sched' = [sched EXCEPT !.pc = IF r.wait THEN "acquire_wait" ELSE "spawn_reader"]
    /\ UNCHANGED << cfg, flag, data_chunks, iter_taken, reader_queue,
                    worker_queue, rpc, rbuf, rcnt, rres, tx, chan, wpc, wbuf, hasher,
                    recycled, finished, errors, released, client, late >>
    /\ UNCHANGED notRunner

\* bounded(chan_bound); reader_pool.spawn_fifo(...)
SchedSpawnReader ==
    /\ sched.pc = "spawn_reader"
    /\ chan' = [chan EXCEPT ![sched.file] = <<>>]
    /\ tx' = [tx EXCEPT ![sched.file] = TRUE]
    /\ reader_queue' = Append(reader_queue, sched.file)
    /\ rpc' = [rpc EXCEPT ![sched.file] = "queued"]
    /\ late' = IF flag THEN late ELSE late + 1
    /\ sched' = [sched EXCEPT !.pc = "spawn_worker"]
    /\ UNCHANGED << cfg, flag, permits, data_chunks, iter_taken,
                    worker_queue, rbuf, rcnt, rres, wpc, wbuf, hasher,
                    recycled, finished, errors, released, client >>
    /\ UNCHANGED notRunner

\* worker_pool.spawn_fifo(...)
SchedSpawnWorker ==
    /\ sched.pc = "spawn_worker"
    /\ worker_queue' = Append(worker_queue, sched.file)
    /\ wpc' = [wpc EXCEPT ![sched.file] = "queued"]
    /\ sched' = [sched EXCEPT !.pc = "loop"]
    /\ UNCHANGED << cfg, flag, permits, data_chunks, iter_taken, reader_queue,
                    rpc, rbuf, rcnt, rres, tx, chan, wbuf, hasher,
                    recycled, finished, errors, released, client, late >>
    /\ UNCHANGED notRunner

\* cfg.c.permits.wait_for_permits(cfg.c.max_permits)
SchedDrain_One ==
    /\ sched.pc = "drain"
    /\ LET r == wait_for_permits(permits, USIZE(1))
       IN  /\ permits' = r.perm
           /\ sched' = [sched EXCEPT !.pc = IF r.wait THEN "drain_wait" ELSE "done"]
    /\ UNCHANGED << cfg, flag, data_chunks, iter_taken, reader_queue,
                    worker_queue, rpc, rbuf, rcnt, rres, tx, chan, wpc, wbuf, hasher,
                    recycled, finished, errors, released, client, late >>
    /\ UNCHANGED notRunner

SchedDrain ==
    /\ sched.pc = "drain"
    /\ LET r == wait_for_permits(permits, USIZE(ic.max_permits))
       IN  /\ permits' = r.perm
           /\ sched' = [sched EXCEPT !.pc = IF r.wait THEN "drain_wait" ELSE "done"]
    /\ UNCHANGED << cfg, flag, data_chunks, iter_taken, reader_queue,
                    worker_queue, rpc, rbuf, rcnt, rres, tx, chan, wpc, wbuf, hasher,
                    recycled, finished, errors, released, client, late >>
    /\ UNCHANGED notRunner

\* The scheduler as left by a notify_all on the permits' condvar
NotifiedSched(s) ==
    IF s.pc = "acquire_wait" THEN [s EXCEPT !.pc = "acquire"]
    ELSE IF s.pc = "drain_wait" THEN [s EXCEPT !.pc = "drain"]
    ELSE s

\* ------------------------------------------------------------------------
\* LendingStack (utils/lifo.rs), as the runner uses it
\* ------------------------------------------------------------------------

\* InnerLifo::lend under the lock: the popped element, or the wait on the condvar
lend_Alloc(elements) ==
    IF elements # <<>>
    THEN [kind |-> "value", value |-> elements[Len(elements)],
          rest |-> SubSeq(elements, 1, Len(elements) - 1)]
    ELSE [kind |-> "value", value |-> [capacity |-> 0], rest |-> elements]

lend(elements) ==
    IF elements # <<>>
    THEN [kind |-> "value", value |-> elements[Len(elements)],
          rest |-> SubSeq(elements, 1, Len(elements) - 1)]
    ELSE [kind |-> "wait", value |-> [capacity |-> 0], rest |-> elements]

\* InnerLifo::give_back: [elements, ret: what the caller gets back, notify: notify_one ran]
give_back_NoLimit(elements, max, value) ==
    [elements |-> Append(elements, value), ret |-> None, notify |-> TRUE]

give_back(elements, max, value) ==
    IF Len(elements) >= max
    THEN [elements |-> elements, ret |-> Some(value), notify |-> FALSE]
    ELSE [elements |-> Append(elements, value), ret |-> None, notify |-> TRUE]

\* Readers sleeping on the stack's condvar
LendWaiters == { f \in Files : rpc[f] = "lend_wait" }

\* ------------------------------------------------------------------------
\* The per-file channel (crossbeam bounded)
\* ------------------------------------------------------------------------

\* Receiver::recv on a buffered channel: the oldest message, an error once the
\* channel is empty and the sender is gone, and otherwise it blocks.
recv_Newest(q, sender_alive) ==
    IF q # <<>> THEN [kind |-> "msg", msg |-> q[Len(q)], rest |-> SubSeq(q, 1, Len(q) - 1)]
    ELSE IF sender_alive THEN [kind |-> "block", msg |-> <<>>, rest |-> q]
    ELSE [kind |-> "disconnected", msg |-> <<>>, rest |-> q]

recv_NoBlock(q, sender_alive) ==
    IF q # <<>> THEN [kind |-> "msg", msg |-> Head(q), rest |-> Tail(q)]
    ELSE [kind |-> "disconnected", msg |-> <<>>, rest |-> q]

recv(q, sender_alive) ==
    IF q # <<>> THEN [kind |-> "msg", msg |-> Head(q), rest |-> Tail(q)]
    ELSE IF sender_alive THEN [kind |-> "block", msg |-> <<>>, rest |-> q]
    ELSE [kind |-> "disconnected", msg |-> <<>>, rest |-> q]

\* ------------------------------------------------------------------------
\* A reader task: the closure given to reader_pool, ScanRunner::read_file
\* ------------------------------------------------------------------------

\* Where read_file goes after its send, by what read_from returned
AfterSend(res) ==
    IF res = "more" THEN "lend" ELSE IF res = "eof" THEN "done" ELSE "on_error"

\* A free reader thread takes the oldest task; File::open(path)?
ReaderStart(f) ==
    /\ reader_queue # <<>>
    /\ Head(reader_queue) = f
    /\ Cardinality(ReaderRunning) < ic.read_threads
    /\ reader_queue' = Tail(reader_queue)
    /\ \E ok \in BOOLEAN :
         /\ rpc' = [rpc EXCEPT ![f] = IF ok THEN "lend" ELSE "on_error"]
         /\ rres' = [rres EXCEPT ![f] = IF ok THEN "opened" ELSE "open_err"]
         /\ tx' = [tx EXCEPT ![f] = ok]
    /\ UNCHANGED << cfg, flag, permits, data_chunks, iter_taken, sched,
                    worker_queue, rbuf, rcnt, chan, wpc, wbuf, hasher, recycled,
                    finished, errors, released, client, late >>
    /\ UNCHANGED notRunner

\* supply.lend(), then chunk.read_from(&mut file): Ok(true) "more", Ok(false)
\* "eof", Err(_) "err".  With the stack empty the thread sleeps on its condvar.
ReaderLend(f) ==
    /\ rpc[f] = "lend"
    /\ LET v == lend(data_chunks)
       IN  IF v.kind = "wait"
           THEN /\ rpc' = [rpc EXCEPT ![f] = "lend_wait"]
                /\ UNCHANGED << data_chunks, rbuf, rcnt, rres >>
           ELSE /\ data_chunks' = v.rest
                /\ \E res \in {"more", "eof", "err"} :
                     /\ res = "more" => rcnt[f] < MaxChunks
                     /\ rres' = [rres EXCEPT ![f] = res]
                /\ rcnt' = [rcnt EXCEPT ![f] = @ + 1]
                /\ rbuf' = [rbuf EXCEPT ![f] =
                              << ChunkOf(f, rcnt[f] + 1,
                                         IF v.value.capacity < ic.chunk_size
                                         THEN ic.chunk_size ELSE v.value.capacity) >>]
                /\ rpc' = [rpc EXCEPT ![f] = "send"]
    /\ UNCHANGED << cfg, flag, permits, iter_taken, sched, reader_queue,
                    worker_queue, tx, chan, wpc, wbuf, hasher, recycled,
                    finished, errors, released, client, late >>
    /\ UNCHANGED notRunner

\* dout.send(chunk) into a channel with room and its Receiver alive, then the
\* match on should_continue; returning from read_file drops the Sender.
ReaderSend(f) ==
    /\ rpc[f] = "send"
    /\ wpc[f] # "panicked"
    /\ ic.chan_bound > 0
    /\ Len(chan[f]) < ic.chan_bound
    /\ chan' = [chan EXCEPT ![f] = Append(@, rbuf[f][1])]
    /\ rbuf' = [rbuf EXCEPT ![f] = <<>>]
    /\ rpc' = [rpc EXCEPT ![f] = AfterSend(rres[f])]
    /\ tx' = [tx EXCEPT ![f] = rres[f] = "more"]
    /\ UNCHANGED << cfg, flag, permits, data_chunks, iter_taken, sched,
                    reader_queue, worker_queue, rcnt, rres, wpc, wbuf, hasher,
                    recycled, finished, errors, released, client, late >>
    /\ UNCHANGED notRunner

\* consumer.on_error(err, &file), after read_file has returned Err
ReaderOnError(f) ==
    /\ rpc[f] = "on_error"
    /\ errors' = [errors EXCEPT ![f] = @ + 1]
    /\ rpc' = [rpc EXCEPT ![f] = "done"]
    /\ UNCHANGED << cfg, flag, permits, data_chunks, iter_taken, sched,
                    reader_queue, worker_queue, rbuf, rcnt, rres, tx, chan, wpc,
                    wbuf, hasher, recycled, finished, released, client, late >>
    /\ UNCHANGED notRunner

\* ------------------------------------------------------------------------
\* A worker task: ScanRunner::process_file
\* ------------------------------------------------------------------------

\* A free worker thread takes the oldest task; consume_name, start_file
WorkerStart_NoLimit(f) ==
    /\ worker_queue # <<>>
    /\ Head(worker_queue) = f
    /\ worker_queue' = Tail(worker_queue)
    /\ hasher' = [hasher EXCEPT ![f] = <<>>]
    /\ wpc' = [wpc EXCEPT ![f] = "recv"]
    /\ UNCHANGED << cfg, flag, permits, data_chunks, iter_taken, sched,
                    reader_queue, rpc, rbuf, rcnt, rres, tx, chan, wbuf, recycled,
                    finished, errors, released, client, late >>
    /\ UNCHANGED notRunner

WorkerStart(f) ==
    /\ worker_queue # <<>>
    /\ Head(worker_queue) = f
    /\ Cardinality(WorkerRunning) < ic.hash_threads
    /\ worker_queue' = Tail(worker_queue)
    /\ hasher' = [hasher EXCEPT ![f] = <<>>]
    /\ wpc' = [wpc EXCEPT ![f] = "recv"]
    /\ UNCHANGED << cfg, flag, permits, data_chunks, iter_taken, sched,
                    reader_queue, rpc, rbuf, rcnt, rres, tx, chan, wbuf,
                    recycled, finished, errors, released, client, late >>
    /\ UNCHANGED notRunner

\* while let Ok(chunk) = din.recv()
WorkerRecv(f) ==
    /\ wpc[f] = "recv"
    /\ LET r == recv(chan[f], tx[f])
       IN  /\ r.kind # "block"
           /\ chan' = [chan EXCEPT ![f] = r.rest]
           /\ wbuf' = [wbuf EXCEPT ![f] = IF r.kind = "msg" THEN << r.msg >> ELSE <<>>]
           /\ wpc' = [wpc EXCEPT ![f] = IF r.kind = "msg" THEN "update" ELSE "finish"]
    /\ UNCHANGED << cfg, flag, permits, data_chunks, iter_taken, sched,
                    reader_queue, worker_queue, rpc, rbuf, rcnt, rres, tx,
                    hasher, recycled, finished, errors, released, client,
                    late >>
    /\ UNCHANGED notRunner

\* A zero-capacity channel hands the chunk over when the send meets the recv.
Rendezvous(f) ==
    /\ rpc[f] = "send"
    /\ wpc[f] = "recv"
    /\ ic.chan_bound = 0
    /\ wbuf' = [wbuf EXCEPT ![f] = rbuf[f]]
    /\ rbuf' = [rbuf EXCEPT ![f] = <<>>]
    /\ wpc' = [wpc EXCEPT ![f] = "update"]
    /\ rpc' = [rpc EXCEPT ![f] = AfterSend(rres[f])]
    /\ tx' = [tx EXCEPT ![f] = rres[f] = "more"]
    /\ UNCHANGED << cfg, flag, permits, data_chunks, iter_taken, sched,
                    reader_queue, worker_queue, rcnt, rres, chan, hasher,
                    recycled, finished, errors, released, client, late >>
    /\ UNCHANGED notRunner

\* consumer.update_file(&mut hasher, &chunk); recycle.give_back(chunk), whose
\* notify_one wakes one reader sleeping in lend() when there is one.
WorkerUpdate(f) ==
    /\ wpc[f] = "update"
    /\ hasher' = [hasher EXCEPT ![f] = Append(@, [file |-> wbuf[f][1].file, seq |-> wbuf[f][1].seq])]
    /\ LET g == give_back(data_chunks, ic.num_chunks, [capacity |-> wbuf[f][1].capacity])
       IN  /\ data_chunks' = g.elements
           /\ recycled' = [recycled EXCEPT ![f] = IF g.ret = None THEN @ + 1 ELSE @]
           /\ IF g.notify /\ LendWaiters # {}
              THEN \E w \in LendWaiters : rpc' = [rpc EXCEPT ![w] = "lend"]
              ELSE rpc' = rpc
    /\ wbuf' = [wbuf EXCEPT ![f] = <<>>]
    /\ wpc' = [wpc EXCEPT ![f] = "recv"]
    /\ UNCHANGED << cfg, flag, permits, iter_taken, sched, reader_queue,
                    worker_queue, rbuf, rcnt, rres, tx, chan, finished, errors,
                    released, client, late >>
    /\ UNCHANGED notRunner

\* consumer.finish_consume(name, hasher)
WorkerFinish(f) ==
    /\ wpc[f] = "finish"
    /\ finished' = [finished EXCEPT ![f] = @ + 1]
    /\ wpc' = [wpc EXCEPT ![f] = "release"]
    /\ UNCHANGED << cfg, flag, permits, data_chunks, iter_taken, sched,
                    reader_queue, worker_queue, rpc, rbuf, rcnt, rres, tx, chan,
                    wbuf, hasher, recycled, errors, released, client, late >>
    /\ UNCHANGED notRunner

\* signal.add_permit()
WorkerRelease(f) ==
    /\ wpc[f] = "release"
    /\ LET r == add_permit(permits)
       IN  /\ permits' = r.perm
           /\ sched' = IF r.notify THEN NotifiedSched(sched) ELSE sched
    /\ released' = [released EXCEPT ![f] = @ + 1]
    /\ wpc' = [wpc EXCEPT ![f] = "done"]
    /\ UNCHANGED << cfg, flag, data_chunks, iter_taken, reader_queue,
                    worker_queue, rpc, rbuf, rcnt, rres, tx, chan, wbuf, hasher,
                    recycled, finished, errors, client, late >>
    /\ UNCHANGED notRunner

\* ------------------------------------------------------------------------
\* The owner of the ScanRunner: signal_stop, stop, wait_for_finish
\* ------------------------------------------------------------------------

\* self.config.flag.swap(false, AcqRel)
SignalStop ==
    /\ client = "owner"
    /\ flag' = FALSE
    /\ UNCHANGED << cfg, permits, data_chunks, iter_taken, sched, reader_queue,
                    worker_queue, rpc, rbuf, rcnt, rres, tx, chan, wpc, wbuf, hasher,
                    recycled, finished, errors, released, client, late >>
    /\ UNCHANGED notRunner

\* stop: if self.is_finished() { return false }; self.config.flag.store(false, Release)
Stop ==
    /\ client = "owner"
    /\ client' = IF sched.pc = "done" THEN "stop_false" ELSE "stop_join"
    /\ flag' = IF sched.pc = "done" THEN flag ELSE FALSE
    /\ UNCHANGED << cfg, permits, data_chunks, iter_taken, sched, reader_queue,
                    worker_queue, rpc, rbuf, rcnt, rres, tx, chan, wpc, wbuf, hasher,
                    recycled, finished, errors, released, late >>
    /\ UNCHANGED notRunner

\* stop: self.scheduler.join(); true
StopJoin ==
    /\ client = "stop_join"
    /\ sched.pc = "done"
    /\ client' = "stop_true"
    /\ UNCHANGED << cfg, flag, permits, data_chunks, iter_taken, sched,
                    reader_queue, worker_queue, rpc, rbuf, rcnt, rres, tx, chan,
                    wpc, wbuf, hasher, recycled, finished, errors, released,
                    late >>
    /\ UNCHANGED notRunner

\* wait_for_finish: self.scheduler.join()
WaitForFinish ==
    /\ client = "owner"
    /\ sched.pc = "done"
    /\ client' = "wait_done"
    /\ UNCHANGED << cfg, flag, permits, data_chunks, iter_taken, sched,
                    reader_queue, worker_queue, rpc, rbuf, rcnt, rres, tx, chan,
                    wpc, wbuf, hasher, recycled, finished, errors, released,
                    late >>
    /\ UNCHANGED notRunner

\* ------------------------------------------------------------------------
\* The runner's specification
\* ------------------------------------------------------------------------

Scheduler ==
    \/ SchedLoadFlag
    \/ SchedNext
    \/ SchedWaitPermit
    \/ SchedSpawnReader
    \/ SchedSpawnWorker
    \/ SchedDrain

Reader(f) ==
    \/ ReaderStart(f)
    \/ ReaderLend(f)
    \/ ReaderSend(f)
    \/ ReaderOnError(f)

Worker(f) ==
    \/ WorkerStart(f)
    \/ WorkerRecv(f)
    \/ Rendezvous(f)
    \/ WorkerUpdate(f)
    \/ WorkerFinish(f)
    \/ WorkerRelease(f)

Owner ==
    \/ SignalStop
    \/ Stop
    \/ StopJoin
    \/ WaitForFinish

Next ==
    \/ Scheduler
    \/ \E f \in Files : Reader(f)
    \/ \E f \in Files : Worker(f)
    \/ Owner

Spec == Init /\ [][Next]_vars

\* ------------------------------------------------------------------------
\* Properties of the runner
\* ------------------------------------------------------------------------

\* The scheduler, the reader pool and the worker pool (the owner left out)
Pipeline ==
    \/ Scheduler
    \/ \E f \in Files : Reader(f)
    \/ \E f \in Files : Worker(f)

\* Files whose permit the scheduler has acquired and whose worker has not
\* released it yet
InFlight ==
    { f \in Files :
        /\ f <= iter_taken
        /\ ~(sched.file = f /\ sched.pc \in {"acquire", "acquire_wait"})
        /\ released[f] = 0 }

\* The chunks read from file f so far, in the order read
FileData(f) == [i \in 1..rcnt[f] |-> [file |-> f, seq |-> i]]

Content(q) == [i \in 1..Len(q) |-> [file |-> q[i].file, seq |-> q[i].seq]]

\* The buffers that exist: in the stack, held by a reader, queued, held by a worker
RECURSIVE SumLen(_, _)
SumLen(fn, n) == IF n = 0 THEN 0 ELSE Len(fn[n]) + SumLen(fn, n - 1)

TotalBuffers ==
    Len(data_chunks) + SumLen(rbuf, NumFiles) + SumLen(chan, NumFiles) + SumLen(wbuf, NumFiles)

\* C1: a file whose open failed or whose read returned an error gets on_error
\* and never finish_consume: no entry for it reaches the sink.
C1_FailedFileNotFinished ==
    \A f \in Files :
        rres[f] \in {"open_err", "err"} =>
            /\ finished[f] = 0
            /\ rpc[f] = "done" => errors[f] = 1

\* C2: the files in flight never exceed max_concurrent_files, and until the
\* final drain has taken them all, available permits + files in flight is
\* max_concurrent_files.
C2_InFlightBounded ==
    /\ IsUsize(permits)
    /\ permits.hi = 0
    /\ Cardinality(InFlight) <= ic.max_permits
    /\ sched.pc # "done" => permits.lo + Cardinality(InFlight) = ic.max_permits

C2_Witness ==
    /\ Cardinality(InFlight) = ic.max_permits
    /\ sched.pc = "acquire_wait"
    /\ \E f \in Files : wpc[f] = "update"

\* C3: what update_file received for a file, followed by the chunk the worker
\* holds, the chunks queued and the chunk the reader holds, is what was read
\* from the file, in order; for a file read to EOF update_file has received
\* all of it when the worker stops receiving.
C3_ChunksInOrder ==
    \A f \in Files :
        /\ hasher[f] \o Content(wbuf[f]) \o Content(chan[f]) \o Content(rbuf[f]) = FileData(f)
        /\ (rres[f] = "eof" /\ wpc[f] \in {"finish", "release", "done"}) =>
               hasher[f] = FileData(f)

C3_Witness ==
    \E f \in Files :
        /\ rres[f] = "eof"
        /\ finished[f] = 1
        /\ Len(hasher[f]) = MaxChunks + 1
        /\ Len(hasher[f]) >= 2

\* C4: for a file read to EOF, finish_consume is called at most once and only
\* after every chunk sent was given to update_file and pushed back on the
\* stack; the permit is released once, after finish_consume; a worker task
\* that has ended has done both.
C4_FinishOnceAfterAllChunks ==
    \A f \in Files :
        rres[f] = "eof" =>
            /\ finished[f] <= 1
            /\ released[f] <= finished[f]
            /\ finished[f] = 1 =>
                   /\ ~tx[f] /\ chan[f] = <<>> /\ rbuf[f] = <<>> /\ wbuf[f] = <<>>
                   /\ Len(hasher[f]) = rcnt[f]
                   /\ recycled[f] = rcnt[f]
            /\ wpc[f] = "done" => finished[f] = 1 /\ released[f] = 1

C4_Witness ==
    \E f \in Files :
        /\ rres[f] = "eof"
        /\ wpc[f] = "done"
        /\ rcnt[f] >= 2
        /\ released[f] = 1

C6_DrainWaitsForAll ==
    /\ sched.pc = "done" =>
          /\ \A f \in Files : f <= iter_taken =>
                 finished[f] = 1 /\ released[f] = 1 /\ wpc[f] = "done"
          /\ InFlight = {}
          /\ permits = USIZE(0)
    /\ client = "wait_done" => sched.pc = "done"

C6_Witness ==
    /\ client = "wait_done"
    /\ iter_taken = NumFiles
    /\ \A f \in Files : finished[f] = 1

Halted ==
    /\ ic.read_threads > ic.hash_threads
    /\ data_chunks = <<>>
    /\ \A f \in Files : rbuf[f] = <<>> /\ wbuf[f] = <<>>
    /\ \A f \in Files : chan[f] # <<>> => rpc[f] = "done" /\ wpc[f] = "queued"
    /\ WorkerRunning # {}
    /\ \A f \in WorkerRunning : wpc[f] = "recv" /\ chan[f] = <<>> /\ rpc[f] = "lend_wait"
    /\ \A f \in ReaderRunning : rpc[f] = "lend_wait"
    /\ reader_queue = <<>>
    /\ sched.pc \in {"acquire_wait", "drain_wait"}

\* C8: with more readers than workers, once all buffers are queued for files
\* whose reader has finished and whose worker has not started, every running
\* worker waits on an empty channel and its reader waits in lend(), no thread
\* of the pipeline can take a step and the scheduler has not returned.
C8_HaltedIsStuck ==
    Halted => (~ENABLED Pipeline /\ sched.pc # "done")

C8_Witness ==
    /\ Halted
    /\ ~ENABLED Pipeline

\* ------------------------------------------------------------------------
\* Part 2.  Permits on its own: threads calling wait_for_permits and
\* add_permits of one Permits in any order.
\* ------------------------------------------------------------------------

\* The counts a call passes, and the counts Permits::new is given
PmCounts == { USIZE(n) : n \in 0..PmMaxCount } \cup { USIZE_MAX }

PmSleepers == { t \in PmThreads : pmPc[t] = "sleep" }

\* The threads as left by a call of notify_all
NotifiedAll(pc) == [t \in PmThreads |-> IF pc[t] = "sleep" THEN "check" ELSE pc[t]]

PermitsInit ==
    /\ RunnerIdle
    /\ RestIdle
    /\ pmInit \in PmCounts
    /\ pmPerm = pmInit
    /\ pmPc = [t \in PmThreads |-> "idle"]
    /\ pmArg = [t \in PmThreads |-> USIZE(0)]
    /\ pmOps = 0
    /\ pmBalance = pmInit
    /\ pmOverflowed = USIZE(0)
    /\ tpProg = [init |-> 0, pre |-> 0, adds |-> 0]
    /\ tpCalls = 0
    /\ tpSpawned = FALSE
    /\ tpAdded = 0

\* A thread calls wait_for_permits(count)
PmCallWait(t) ==
    /\ pmPc[t] = "idle"
    /\ pmOps < PmMaxOps
    /\ \E count \in PmCounts : pmArg' = [pmArg EXCEPT ![t] = count]
    /\ pmPc' = [pmPc EXCEPT ![t] = "check"]
    /\ pmOps' = pmOps + 1
    /\ UNCHANGED << pmInit, pmPerm, pmBalance, pmOverflowed, tpProg, tpCalls, tpSpawned, tpAdded >>
    /\ UNCHANGED notPermits

\* wait_while runs its closure under the mutex: the thread returns with the
\* count taken, or sleeps on the condvar until it is notified
PmWaitCheck(t) ==
    /\ pmPc[t] = "check"
    /\ LET r == wait_for_permits(pmPerm, pmArg[t])
       IN  /\ pmPerm' = r.perm
           /\ pmPc' = [pmPc EXCEPT ![t] = IF r.wait THEN "sleep" ELSE "idle"]
           /\ pmBalance' = IF r.wait THEN pmBalance ELSE BigSub(pmBalance, pmArg[t])
    /\ UNCHANGED << pmInit, pmArg, pmOps, pmOverflowed, tpProg, tpCalls, tpSpawned, tpAdded >>
    /\ UNCHANGED notPermits

\* A thread calls add_permits(count)
PmCallAdd(t) ==
    /\ pmPc[t] = "idle"
    /\ pmOps < PmMaxOps
    /\ \E count \in PmCounts :
         LET r == add_permits(pmPerm, count)
         IN  /\ pmPerm' = r.perm
             /\ pmPc' = IF r.notify THEN NotifiedAll(pmPc) ELSE pmPc
             /\ pmBalance' = BigAdd(pmBalance, count)
             /\ pmOverflowed' = IF checked_add(pmPerm, count) = None
                                THEN BigAdd(pmOverflowed, count) ELSE pmOverflowed
    /\ pmOps' = pmOps + 1
    /\ UNCHANGED << pmInit, pmArg, tpProg, tpCalls, tpSpawned, tpAdded >>
    /\ UNCHANGED notPermits

PermitsNext ==
    \E t \in PmThreads :
        \/ PmCallWait(t)
        \/ PmWaitCheck(t)
        \/ PmCallAdd(t)

SpecPermits == PermitsInit /\ [][PermitsNext]_vars

\* C9 as written: the count is never below zero and always equals
\* initial + released - acquired.
C9_CountIsBalance ==
    /\ IsUsize(pmPerm)
    /\ pmPerm = pmBalance

\* A step in which thread t returns from wait_for_permits
PmReturns(t) == pmPc[t] = "check" /\ pmPc'[t] = "idle"

\* A step in which a thread calls add_permits: a call that starts no wait
PmAddStep ==
    /\ pmOps' = pmOps + 1
    /\ \A u \in PmThreads : pmPc'[u] = "check" => pmPc[u] # "idle"

\* C9 amended: the count is never below zero and always equals
\* initial + released - acquired, where released leaves out the add_permits
\* calls whose sum would have exceeded usize::MAX: such a call changes nothing
\* and wakes nobody; wait_for_permits(n) returns only by subtracting n from a
\* count of at least n; every other add_permits call wakes every waiter, and
\* no thread sleeps while the count would serve it.
C9_CountIsBalanceUnlessOverflow ==
    /\ [](/\ IsUsize(pmPerm)
          /\ pmPerm = BigSub(pmBalance, pmOverflowed)
          /\ \A t \in PmSleepers : checked_sub(pmPerm, pmArg[t]) = None)
    /\ [][/\ \A t \in PmThreads :
                PmReturns(t) =>
                    /\ IsUsize(BigSub(pmPerm, pmArg[t]))
                    /\ pmPerm' = BigSub(pmPerm, pmArg[t])
          /\ (PmAddStep /\ pmOverflowed' = pmOverflowed) =>
                \A u \in PmThreads : pmPc'[u] # "sleep"
          /\ (PmAddStep /\ pmOverflowed' # pmOverflowed) =>
                pmPerm' = pmPerm /\ pmPc' = pmPc]_vars

C9_Witness ==
    /\ pmOverflowed = USIZE(1)
    /\ pmPerm = USIZE_MAX
    /\ pmBalance = Big(1, 1)
    /\ pmOps = PmMaxOps

\* ------------------------------------------------------------------------
\* tests::test_permits: the main thread takes `pre` of `init` permits, spawns
\* a thread that calls add_permit `adds` times, and calls wait_for_permit
\* init - pre + adds more times.  The test itself is init 3, pre 2, adds 3.
\* ------------------------------------------------------------------------

TestPermitsProg == [init |-> 3, pre |-> 2, adds |-> 3]

TestPermitsInit ==
    /\ RunnerIdle
    /\ RestIdle
    /\ tpProg \in { [init |-> i, pre |-> p, adds |-> a] :
                      i \in 0..TpMaxInit, p \in 0..TpMaxInit, a \in 0..TpMaxAdds }
    /\ tpProg.pre <= tpProg.init
    /\ pmInit = USIZE(tpProg.init)
    /\ pmPerm = pmInit
    /\ pmPc = [t \in PmThreads |-> "idle"]
    /\ pmArg = [t \in PmThreads |-> USIZE(0)]
    /\ pmOps = 0
    /\ pmBalance = pmInit
    /\ pmOverflowed = USIZE(0)
    /\ tpCalls = 0
    /\ tpSpawned = FALSE
    /\ tpAdded = 0

\* perm.wait_for_permit() on the main thread
TpMainWait ==
    /\ pmPc[1] = "idle"
    /\ tpCalls < tpProg.init + tpProg.adds
    /\ tpCalls = tpProg.pre => tpSpawned
    /\ pmPc' = [pmPc EXCEPT ![1] = "check"]
    /\ pmArg' = [pmArg EXCEPT ![1] = USIZE(1)]
    /\ tpCalls' = tpCalls + 1
    /\ UNCHANGED << pmInit, pmPerm, pmOps, pmBalance, pmOverflowed, tpProg, tpSpawned, tpAdded >>
    /\ UNCHANGED notPermits

\* c.spawn(...)
TpSpawn ==
    /\ pmPc[1] = "idle"
    /\ tpCalls = tpProg.pre
    /\ ~tpSpawned
    /\ tpSpawned' = TRUE
    /\ UNCHANGED << pmInit, pmPerm, pmPc, pmArg, pmOps, pmBalance, pmOverflowed, tpProg, tpCalls, tpAdded >>
    /\ UNCHANGED notPermits

\* sleep(...); perm.add_permit() on the spawned thread
TpAdd ==
    /\ tpSpawned
    /\ tpAdded < tpProg.adds
    /\ LET r == add_permit(pmPerm)
       IN  /\ pmPerm' = r.perm
           /\ pmPc' = IF r.notify THEN NotifiedAll(pmPc) ELSE pmPc
    /\ pmBalance' = BigAdd(pmBalance, USIZE(1))
    /\ tpAdded' = tpAdded + 1
    /\ UNCHANGED << pmInit, pmArg, pmOps, pmOverflowed, tpProg, tpCalls, tpSpawned >>
    /\ UNCHANGED notPermits

TpMain ==
    \/ TpMainWait
    \/ TpSpawn
    \/ PmWaitCheck(1)

TestPermitsNext ==
    \/ TpMain
    \/ TpAdd

\* Both threads keep running: the operating system schedules each of them.
SpecTestPermits ==
    /\ TestPermitsInit
    /\ [][TestPermitsNext]_vars
    /\ WF_vars(TpMain)
    /\ WF_vars(TpAdd)

\* The scope has ended: every call of both threads has returned
TpDone ==
    /\ tpCalls = tpProg.init + tpProg.adds
    /\ pmPc[1] = "idle"
    /\ tpAdded = tpProg.adds

\* C10: no wake-up is lost: the main thread never sleeps while the count
\* would serve it, and every wait_for_permit call of the test returns, so the
\* test ends.
C10_TestPermitsEnds ==
    /\ [](\A t \in PmSleepers : checked_sub(pmPerm, pmArg[t]) = None)
    /\ <>TpDone

C10_Witness ==
    /\ tpProg = TestPermitsProg
    /\ TpDone
    /\ pmPerm = USIZE(0)

\* ------------------------------------------------------------------------
\* Part 3.  LendingStack on its own (utils/lifo.rs): threads calling
\* try_lend, lend and give_back of one stack in any order.  The stack is
\* constructed with the values 1..lsMax; thread 1 also owns the value 0,
\* which never came from the stack.
\* ------------------------------------------------------------------------

\* LendingStack::try_lend: elements.lock().pop()
try_lend(elements) ==
    IF elements = <<>>
    THEN [ret |-> None, rest |-> elements]
    ELSE [ret |-> Some(elements[Len(elements)]),
          rest |-> SubSeq(elements, 1, Len(elements) - 1)]

\* Threads parked in condvar.wait
LsWaiters == { t \in LsThreads : lsPc[t] = "wait" }

\* LendingStack::new(elements)
LifoInit ==
    /\ RunnerIdle
    /\ PmIdle
    /\ ViIdle
    /\ BgIdle
    /\ DfIdle
    /\ HaIdle
    /\ HcIdle
    /\ ApIdle
    /\ CrIdle
    /\ MhIdle
    /\ FsIdle
    /\ ZfIdle
    /\ MsIdle
    /\ lsMax \in 0..LsMaxElems
    /\ lsElems = [i \in 1..lsMax |-> i]
    /\ lsPc = [t \in LsThreads |-> "idle"]
    /\ lsHeld = [t \in LsThreads |-> IF t = 1 THEN {0} ELSE {}]
    /\ lsRet = [t \in LsThreads |-> [op |-> "none", arg |-> None, ret |-> None]]

\* A thread calls try_lend()
LsTryLend(t) ==
    /\ lsPc[t] = "idle"
    /\ LET r == try_lend(lsElems)
       IN  /\ lsElems' = r.rest
           /\ lsHeld' = [lsHeld EXCEPT ![t] = IF r.ret = None THEN @ ELSE @ \cup {r.ret[1]}]
           /\ lsRet' = [lsRet EXCEPT ![t] = [op |-> "try_lend", arg |-> None, ret |-> r.ret]]
    /\ UNCHANGED << lsMax, lsPc >>
    /\ UNCHANGED notLifo

\* A thread calls lend(), or a thread woken from condvar.wait has the lock
\* again: one turn of the loop, which pops and returns or waits.
LsLend(t) ==
    /\ lsPc[t] \in {"idle", "woken"}
    /\ LET v == lend(lsElems)
       IN  IF v.kind = "value"
           THEN /\ lsElems' = v.rest
                /\ lsHeld' = [lsHeld EXCEPT ![t] = @ \cup {v.value}]
                /\ lsRet' = [lsRet EXCEPT ![t] = [op |-> "lend", arg |-> None, ret |-> Some(v.value)]]
                /\ lsPc' = [lsPc EXCEPT ![t] = "idle"]
           ELSE /\ lsPc' = [lsPc EXCEPT ![t] = "wait"]
                /\ UNCHANGED << lsElems, lsHeld, lsRet >>
    /\ UNCHANGED lsMax
    /\ UNCHANGED notLifo

\* A thread calls give_back(value) with a value it owns: up to drop(lock)
LsGiveBack(t) ==
    /\ lsPc[t] = "idle"
    /\ \E value \in lsHeld[t] :
         LET r == give_back(lsElems, lsMax, value)
         IN  /\ lsElems' = r.elements
             /\ lsHeld' = [lsHeld EXCEPT ![t] = IF r.ret = None THEN @ \ {value} ELSE @]
             /\ lsRet' = [lsRet EXCEPT ![t] = [op |-> "give_back", arg |-> Some(value), ret |-> r.ret]]
             /\ lsPc' = [lsPc EXCEPT ![t] = IF r.notify THEN "notify" ELSE "idle"]
    /\ UNCHANGED lsMax
    /\ UNCHANGED notLifo

\* condvar.notify_one() at the end of give_back: one parked thread, if there
\* is one, leaves condvar.wait
LsNotifyOne_Lost(t) ==
    /\ lsPc[t] = "notify"
    /\ lsPc' = [lsPc EXCEPT ![t] = "idle"]
    /\ UNCHANGED << lsMax, lsElems, lsHeld, lsRet >>
    /\ UNCHANGED notLifo

LsNotifyOne(t) ==
    /\ lsPc[t] = "notify"
    /\ IF LsWaiters = {}
       THEN lsPc' = [lsPc EXCEPT ![t] = "idle"]
       ELSE \E w \in LsWaiters : lsPc' = [lsPc EXCEPT ![t] = "idle", ![w] = "woken"]
    /\ UNCHANGED << lsMax, lsElems, lsHeld, lsRet >>
    /\ UNCHANGED notLifo

LifoNext ==
    \E t \in LsThreads :
        \/ LsTryLend(t)
        \/ LsLend(t)
        \/ LsGiveBack(t)
        \/ LsNotifyOne(t)

SpecLifo == LifoInit /\ [][LifoNext]_vars

\* A thread inside a call keeps running: the operating system schedules it.
\* Nothing makes an idle thread call again.
LsRunning(t) ==
    \/ lsPc[t] = "woken" /\ LsLend(t)
    \/ LsNotifyOne(t)

SpecLifoFair ==
    /\ LifoInit
    /\ [][LifoNext]_vars
    /\ \A t \in LsThreads : WF_vars(LsRunning(t))

\* C11: the stack never holds more elements than it was constructed with;
\* give_back pushes the value and returns None below that capacity, and at
\* capacity hands the value back and leaves the stack as it was; try_lend
\* returns at once, with None exactly when the stack is empty and with the
\* popped top otherwise.
C11_NeverOverCapacity ==
    /\ [](Len(lsElems) <= lsMax)
    /\ [][\A t \in LsThreads :
            /\ LsGiveBack(t) =>
                 LET value == lsRet'[t].arg[1]
                 IN  IF Len(lsElems) < lsMax
                     THEN /\ lsElems' = Append(lsElems, value)
                          /\ lsRet'[t].ret = None
                          /\ value \notin lsHeld'[t]
                     ELSE /\ lsElems' = lsElems
                          /\ lsRet'[t].ret = Some(value)
                          /\ value \in lsHeld'[t]
            /\ LsTryLend(t) =>
                 /\ lsPc'[t] = "idle"
                 /\ lsRet'[t].ret = None <=> lsElems = <<>>
                 /\ lsElems # <<>> =>
                      /\ lsRet'[t].ret = Some(lsElems[Len(lsElems)])
                      /\ lsElems' = SubSeq(lsElems, 1, Len(lsElems) - 1)
         ]_vars

C11_Witness ==
    /\ lsMax = LsMaxElems
    /\ \E t, u \in LsThreads :
         /\ lsRet[t].op = "give_back"
         /\ lsRet[t].ret # None
         /\ lsRet[t].ret = lsRet[t].arg
         /\ lsRet[u] = [op |-> "try_lend", arg |-> None, ret |-> None]

\* Threads blocked in lend()
LsBlocked == { t \in LsThreads : lsPc[t] \in {"wait", "woken"} }

\* What C12 has in common with its amended form: lend returns only with the
\* popped top and waits (again) when it finds the stack empty; a give_back
\* that pushed goes on to notify_one, which wakes a waiter when there is
\* one; while a thread waits, every element in the stack is matched by a
\* notify_one still to come or by a woken thread still to look.
LsLendContract ==
    /\ [](LsWaiters # {} =>
            Len(lsElems) <= Cardinality({ t \in LsThreads : lsPc[t] \in {"notify", "woken"} }))
    /\ [][\A t \in LsThreads :
            /\ LsLend(t) =>
                 IF lsElems # <<>>
                 THEN /\ lsPc'[t] = "idle"
                      /\ lsRet'[t] = [op |-> "lend", arg |-> None, ret |-> Some(lsElems[Len(lsElems)])]
                      /\ lsElems' = SubSeq(lsElems, 1, Len(lsElems) - 1)
                 ELSE /\ lsPc'[t] = "wait"
                      /\ lsElems' = lsElems
            /\ (LsGiveBack(t) /\ lsElems' # lsElems) => lsPc'[t] = "notify"
            /\ (LsNotifyOne(t) /\ LsWaiters # {}) =>
                 \E w \in LsWaiters : lsPc'[w] = "woken"
         ]_vars

\* A give_back pushes an element
LsPush == \E t \in LsThreads : LsGiveBack(t) /\ lsElems' # lsElems

\* C12 as stated: besides the contract above, a thread blocked in lend()
\* returns from it whenever elements keep being given back.
C12_NoThreadBlockedForever ==
    /\ LsLendContract
    /\ \A t \in LsThreads :
         ([]<><<LsPush>>_vars) => (t \in LsBlocked ~> lsPc[t] = "idle")

\* C12, amended: besides the contract above, no thread stays blocked in
\* lend() while the stack stays non-empty.
C12_NotBlockedWhileNonEmpty ==
    /\ LsLendContract
    /\ \A t \in LsThreads : []<>(lsElems = <<>> \/ t \notin LsBlocked)

C12_Witness ==
    \E t, u \in LsThreads :
        /\ t # u
        /\ lsPc[t] = "woken"
        /\ lsElems = <<>>
        /\ lsRet[u].op = "lend"
        /\ lsPc[u] = "idle"
        /\ lsMax > 0

\* ------------------------------------------------------------------------
\* Part 4.  utils/bungee.rs.  A usize is the set of its set bits, 0..63, so
\* that shifts, masks and ors are exact over the whole 64-bit range; a byte
\* is a number 0..255.
\* ------------------------------------------------------------------------

\* size_of::<NAME>() * 8 for NAME = usize
UsizeBits == 64

\* VarInt<usize>::MAX_BYTES = size_of::<NAME>() + 1
MAX_BYTES == 9

DATA_MASK == 127

MSB_BIT == 128

Pow2(i) == 2 ^ i

\* u8 as usize, and the low byte of a usize: value as u8
BitsOfByte(b) == { i \in 0..7 : (b \div Pow2(i)) % 2 = 1 }

RECURSIVE SumBits(_, _)
SumBits(bits, i) ==
    IF i < 0 THEN 0 ELSE (IF i \in bits THEN Pow2(i) ELSE 0) + SumBits(bits, i - 1)

AsU8(value) == SumBits(value, 7)

\* usize::wrapping_shl / wrapping_shr: the shift count is taken modulo the width
wrapping_shl(value, n) ==
    { b + (n % UsizeBits) : b \in { c \in value : c + (n % UsizeBits) < UsizeBits } }

wrapping_shr(value, n) ==
    { b - (n % UsizeBits) : b \in { c \in value : c >= n % UsizeBits } }

msb_bit(byte) == byte >= MSB_BIT

\* byte & DATA_MASK
MaskData(byte) == byte % (DATA_MASK + 1)

\* T::from_usize / T::to_usize between the model's small numbers and a usize
from_usize(n) == { i \in 0..30 : (n \div Pow2(i)) % 2 = 1 }

to_usize(value) == SumBits(value, 30)

\* VarInt::write: the bytes written to the front of `data`; the count it
\* returns is their number.
RECURSIVE write_loop(_, _)
write_loop(value, out) ==
    LET byte == MaskData(AsU8(value))
        rest == wrapping_shr(value, 7)
    IN  IF rest = {}
        THEN Append(out, byte + MSB_BIT)
        ELSE write_loop(rest, Append(out, byte))

VarInt_write_PlainLast(value) ==
    IF value \subseteq 0..6
    THEN << AsU8(value) >>
    ELSE LET out == write_loop(wrapping_shr(value, 7), << MaskData(AsU8(value)) + MSB_BIT >>)
         IN  [out EXCEPT ![Len(out)] = MaskData(@)]

VarInt_write(value) ==
    IF value \subseteq 0..6
    THEN << AsU8(value) >>
    ELSE write_loop(wrapping_shr(value, 7), << MaskData(AsU8(value)) + MSB_BIT >>)

\* VarInt::read: [value, count] decoded from the front of `data`
RECURSIVE read_loop(_, _, _, _)
read_loop(data, k, value, i) ==
    IF k > Len(data)
    THEN [value |-> value, count |-> i]
    ELSE LET v == value \cup wrapping_shl(BitsOfByte(MaskData(data[k])), i * 7)
         IN  IF msb_bit(data[k])
             THEN [value |-> v, count |-> i + 1]
             ELSE read_loop(data, k + 1, v, i + 1)

VarInt_read(data) ==
    IF ~msb_bit(data[1])
    THEN [value |-> BitsOfByte(data[1]), count |-> 1]
    ELSE read_loop(data, 2, BitsOfByte(MaskData(data[1])), 1)

\* VarInt::reverse_read: [value, count] decoded from the back of `data`
RECURSIVE reverse_read_loop(_, _, _, _)
reverse_read_loop(data, k, value, i) ==
    IF k < 1
    THEN [value |-> value, count |-> i]
    ELSE LET v == wrapping_shl(value, 7) \cup BitsOfByte(MaskData(data[k]))
         IN  IF msb_bit(data[k])
             THEN [value |-> v, count |-> i + 1]
             ELSE reverse_read_loop(data, k - 1, v, i + 1)

VarInt_reverse_read(data) ==
    IF ~msb_bit(data[Len(data)])
    THEN [value |-> BitsOfByte(data[Len(data)]), count |-> 1]
    ELSE reverse_read_loop(data, Len(data) - 1, BitsOfByte(MaskData(data[Len(data)])), 1)

\* The values encoded: the small ones, and around every power of 128 up to
\* usize::MAX the power itself, the value below it and one with mixed bits
ViValues ==
    { from_usize(n) : n \in 0..ViMaxSmall }
      \cup { {k} : k \in 0..(UsizeBits - 1) }
      \cup { 0..k : k \in 0..(UsizeBits - 1) }
      \cup { {0, k} : k \in 0..(UsizeBits - 1) }
      \cup { { b \in 0..k : b % 7 = 0 } \cup {k} : k \in 0..(UsizeBits - 1) }

\* The bytes that surround an encoding in a buffer
ViPads == { <<>>, <<0>>, <<127>>, <<128>>, <<255>>, <<129, 1>>, <<1, 129>> }

VarIntInit ==
    /\ RunnerIdle
    /\ PmIdle
    /\ LsIdle
    /\ BgIdle
    /\ DfIdle
    /\ HaIdle
    /\ HcIdle
    /\ ApIdle
    /\ CrIdle
    /\ MhIdle
    /\ FsIdle
    /\ ZfIdle
    /\ MsIdle
    /\ viVal \in ViValues
    /\ viPre \in ViPads
    /\ viPost \in ViPads
    /\ viBuf = None
    /\ viFwd = None
    /\ viRev = None

\* value.write(&mut data)
ViWrite ==
    /\ viBuf = None
    /\ viBuf' = Some(VarInt_write(viVal))
    /\ UNCHANGED << viVal, viPre, viPost, viFwd, viRev >>
    /\ UNCHANGED notVarInt

\* VarInt::read on a buffer that starts with the encoding
ViRead ==
    /\ viBuf # None
    /\ viFwd = None
    /\ viFwd' = Some(VarInt_read(viBuf[1] \o viPost))
    /\ UNCHANGED << viVal, viPre, viPost, viBuf, viRev >>
    /\ UNCHANGED notVarInt

\* VarInt::reverse_read on a buffer that ends with the encoding
ViReverseRead ==
    /\ viBuf # None
    /\ viRev = None
    /\ viRev' = Some(VarInt_reverse_read(viPre \o viBuf[1]))
    /\ UNCHANGED << viVal, viPre, viPost, viBuf, viFwd >>
    /\ UNCHANGED notVarInt

VarIntNext ==
    \/ ViWrite
    \/ ViRead
    \/ ViReverseRead

SpecVarInt == VarIntInit /\ [][VarIntNext]_vars

\* v <= 2^(7 * MAX_BYTES) - 1
ViInRange(value) == value \subseteq 0..(7 * MAX_BYTES - 1)

\* C17: for v in [0, 2^(7*MAX_BYTES) - 1], write(v) produces L <= MAX_BYTES
\* bytes, read on a buffer starting with them returns (v, L) and reverse_read
\* on a buffer ending with them returns (v, L), whatever follows or precedes.
C17_VarIntRoundTrip ==
    (ViInRange(viVal) /\ viBuf # None) =>
        /\ Len(viBuf[1]) <= MAX_BYTES
        /\ Len(viBuf[1]) >= 1
        /\ viFwd # None => viFwd[1] = [value |-> viVal, count |-> Len(viBuf[1])]
        /\ viRev # None => viRev[1] = [value |-> viVal, count |-> Len(viBuf[1])]

C17_Witness ==
    /\ viVal = 0..(7 * MAX_BYTES - 1)
    /\ viBuf # None
    /\ Len(viBuf[1]) = MAX_BYTES
    /\ viPre = <<129, 1>>
    /\ viPost = <<1, 129>>
    /\ viFwd # None
    /\ viRev # None

\* ------------------------------------------------------------------------
\* BungeeBytes<VarInt<usize>>, the arena inside BungeeStr.  Indices and
\* lengths are small numbers here; from_usize / to_usize carry them to and
\* from the usize that VarInt encodes.
\* ------------------------------------------------------------------------

\* NonZeroUsize::new(n).map(|index| BungeeIndex { index })
NonZero(n) == IF n = 0 THEN None ELSE Some(n)

\* BungeeBytes::last_index
last_index(data) == NonZero(Len(data))

\* BungeeBytes::reverse_read: [data, skip, prev] of the record that ends at `at`
reverse_read_SkipAtData(data, at) ==
    LET slice     == SubSeq(data, 1, at)
        len       == VarInt_reverse_read(slice)
        end       == Len(slice) - len.count
        start     == end - to_usize(len.value)
        prev      == VarInt_reverse_read(SubSeq(slice, 1, start))
        skip      == start
    IN  [data |-> SubSeq(slice, start + 1, end),
         skip |-> NonZero(skip),
         prev |-> NonZero(skip - to_usize(prev.value))]

reverse_read(data, at) ==
    LET slice     == SubSeq(data, 1, at)
        len       == VarInt_reverse_read(slice)
        end       == Len(slice) - len.count
        start     == end - to_usize(len.value)
        prev      == VarInt_reverse_read(SubSeq(slice, 1, start))
        skip      == start - prev.count
    IN  [data |-> SubSeq(slice, start + 1, end),
         skip |-> NonZero(skip),
         prev |-> NonZero(skip - to_usize(prev.value))]

\* BungeeBytes::reverse_skip
reverse_skip(data, at) ==
    LET r == reverse_read(data, at) IN [data |-> r.data, skip |-> r.skip]

\* BungeeBytes::reverse_follow
reverse_follow_Skip(data, at) ==
    LET r == reverse_read(data, at) IN [data |-> r.data, prev |-> r.skip]

reverse_follow(data, at) ==
    LET r == reverse_read(data, at) IN [data |-> r.data, prev |-> r.prev]

\* BungeeBytes::push: [data: the arena afterwards, ret].  with_ensured_space
\* appends 2 * MAX_BYTES + payload.len() zero bytes, the closure writes the
\* offset to the predecessor, the payload and its length into them, and the
\* arena is truncated to what was written.
push_AbsolutePrev(data, prev, payload) ==
    IF payload = <<>>
    THEN [data |-> data, ret |-> prev]
    ELSE LET p       == IF prev = None THEN 0 ELSE prev[1]
             written == VarInt_write(from_usize(p))
                          \o payload
                          \o VarInt_write(from_usize(Len(payload)))
         IN  [data |-> data \o written, ret |-> NonZero(Len(data) + Len(written))]

push(data, prev, payload) ==
    IF payload = <<>>
    THEN [data |-> data, ret |-> prev]
    ELSE LET pos     == Len(data)
             p       == IF prev = None THEN 0 ELSE prev[1]
             written == VarInt_write(from_usize(pos - p))
                          \o payload
                          \o VarInt_write(from_usize(Len(payload)))
         IN  [data |-> data \o written, ret |-> NonZero(pos + Len(written))]

\* BungeeStrFollowIter collected: the payloads from `last` towards the root
RECURSIVE follow_collect(_, _)
follow_collect(data, last) ==
    IF last = None
    THEN <<>>
    ELSE LET r == reverse_follow(data, last[1])
         IN  << r.data >> \o follow_collect(data, r.prev)

Rev(q) == [i \in 1..Len(q) |-> q[Len(q) + 1 - i]]

\* The loop of path_of: the first part, then separator and part for the rest
RECURSIVE join(_, _)
join(parts, sep) ==
    IF parts = <<>> THEN <<>>
    ELSE IF Len(parts) = 1 THEN parts[1]
    ELSE parts[1] \o sep \o join(Tail(parts), sep)

\* BungeeStr::path_of
path_of_LeafFirst(data, sep, at) == join(follow_collect(data, Some(at)), sep)

path_of(data, sep, at) == join(Rev(follow_collect(data, Some(at))), sep)

\* The payloads pushed: "", "a", "b", "c", and 64 times "é", whose 128 bytes
\* need a two-byte length and put every later record beyond offset 127
LongPayload == [i \in 1..128 |-> IF i % 2 = 1 THEN 195 ELSE 169]

BgPayloads == { <<>>, <<97>>, <<98>>, <<99>> }

\* The separators given to path_of: "/", "" and "::"
BgSeps == { <<47>>, <<>>, <<58, 58>> }

\* Indices returned by the pushes so far
BgIndices == { bgLog[k].index : k \in 1..Len(bgLog) }

\* The arena and the records after the pushes of `prog`, a sequence of
\* [prev: 0 for None or k for the index the k-th push returned, data]
RECURSIVE BgAfter(_)
BgAfter(prog) ==
    IF prog = <<>>
    THEN [data |-> <<>>, log |-> <<>>]
    ELSE LET before == BgAfter(SubSeq(prog, 1, Len(prog) - 1))
             step   == prog[Len(prog)]
             prev   == IF step.prev = 0 THEN None ELSE Some(before.log[step.prev].index)
             r      == push(before.data, prev, step.data)
         IN  [data |-> r.data,
              log  |-> Append(before.log, [index |-> r.ret[1], prev |-> prev, data |-> step.data])]

\* The arenas the model starts from: BungeeStr::new(), the long payload
\* pushed, and "a" pushed with "b" under it
BgStarts ==
    { <<>>,
      << [prev |-> 0, data |-> LongPayload] >>,
      << [prev |-> 0, data |-> <<97>>], [prev |-> 1, data |-> <<98>>] >> }

BungeeInit ==
    /\ RunnerIdle
    /\ PmIdle
    /\ LsIdle
    /\ ViIdle
    /\ DfIdle
    /\ HaIdle
    /\ HcIdle
    /\ ApIdle
    /\ CrIdle
    /\ MhIdle
    /\ FsIdle
    /\ ZfIdle
    /\ MsIdle
    /\ \E prog \in BgStarts :
         /\ bgData = BgAfter(prog).data
         /\ bgLog = BgAfter(prog).log
    /\ bgCall = [prev |-> None, data |-> <<>>, ret |-> None, calls |-> 0]
    /\ bgIter = None
    /\ bgYield = <<>>
    /\ bgPath = None

\* bungee.push(prev, payload); it needs &mut self, so no iterator is alive
BgPush ==
    /\ bgCall.calls < BgMaxPushes
    /\ bgIter = None
    /\ bgPath = None
    /\ \E prev \in {None} \cup { Some(i) : i \in BgIndices }, payload \in BgPayloads :
         LET r == push(bgData, prev, payload)
         IN  /\ bgData' = r.data
             /\ bgCall' = [prev |-> prev, data |-> payload, ret |-> r.ret,
                           calls |-> bgCall.calls + 1]
             /\ bgLog' = IF payload = <<>> THEN bgLog
                         ELSE Append(bgLog, [index |-> r.ret[1], prev |-> prev, data |-> payload])
    /\ UNCHANGED << bgIter, bgYield, bgPath >>
    /\ UNCHANGED notBungee

\* bungee.reverse_follow_iter(at)
BgFollowIter ==
    /\ bgIter = None
    /\ bgPath = None
    /\ \E at \in BgIndices :
         bgIter' = Some([at |-> at, last |-> Some(at), ended |-> FALSE])
    /\ UNCHANGED << bgData, bgLog, bgCall, bgYield, bgPath >>
    /\ UNCHANGED notBungee

\* BungeeFollowIter::next
BgFollowNext ==
    /\ bgIter # None
    /\ ~bgIter[1].ended
    /\ LET last == bgIter[1].last
       IN  IF last # None
           THEN LET result == reverse_follow(bgData, last[1])
                IN  /\ bgIter' = Some([bgIter[1] EXCEPT !.last = result.prev])
                    /\ bgYield' = Append(bgYield, [data |-> result.data, index |-> last[1]])
           ELSE /\ bgIter' = Some([bgIter[1] EXCEPT !.ended = TRUE])
                /\ UNCHANGED bgYield
    /\ UNCHANGED << bgData, bgLog, bgCall, bgPath >>
    /\ UNCHANGED notBungee

\* bungee.path_of(sep, at)
BgPathOf ==
    /\ bgIter = None
    /\ bgPath = None
    /\ \E sep \in BgSeps, at \in BgIndices :
         bgPath' = Some([sep |-> sep, at |-> at, result |-> path_of(bgData, sep, at)])
    /\ UNCHANGED << bgData, bgLog, bgCall, bgIter, bgYield >>
    /\ UNCHANGED notBungee

\* The iterator, its items and the path string are dropped
BgDrop ==
    /\ bgIter # None \/ bgPath # None
    /\ bgIter' = None
    /\ bgYield' = <<>>
    /\ bgPath' = None
    /\ UNCHANGED << bgData, bgLog, bgCall >>
    /\ UNCHANGED notBungee

BungeeNext ==
    \/ BgPush
    \/ BgFollowIter
    \/ BgFollowNext
    \/ BgPathOf
    \/ BgDrop

SpecBungee == BungeeInit /\ [][BungeeNext]_vars

\* The record pushed with index i, its depth and the payloads on its chain,
\* root first, all by the pushes made
LogOf(i) == bgLog[CHOOSE k \in 1..Len(bgLog) : bgLog[k].index = i]

RECURSIVE depth(_)
depth(i) == IF LogOf(i).prev = None THEN 1 ELSE 1 + depth(LogOf(i).prev[1])

RECURSIVE ChainOf(_)
ChainOf(i) ==
    IF LogOf(i).prev = None THEN << LogOf(i).data >>
    ELSE Append(ChainOf(LogOf(i).prev[1]), LogOf(i).data)

\* C13: every index returned by a push of a non-empty payload is non-zero and
\* reverse_follow of it returns the payload and the predecessor given to that
\* push, however many pushes followed; a push of the empty payload returns
\* prev and leaves the arena bytes as they were.
C13_FollowReturnsPushed ==
    /\ [](\A k \in 1..Len(bgLog) :
            /\ bgLog[k].index # 0
            /\ reverse_follow(bgData, bgLog[k].index)
                 = [data |-> bgLog[k].data, prev |-> bgLog[k].prev])
    /\ [][(BgPush /\ bgCall'.data = <<>>) =>
            (bgCall'.ret = bgCall'.prev /\ bgData' = bgData)]_vars
    /\ [][(BgPush /\ bgCall'.data # <<>>) =>
            /\ bgCall'.ret # None
            /\ bgCall'.ret[1] # 0
            /\ reverse_follow(bgData', bgCall'.ret[1])
                 = [data |-> bgCall'.data, prev |-> bgCall'.prev]]_vars

C13_Witness ==
    /\ Len(bgLog) = 2
    /\ bgLog[1].data = LongPayload
    /\ bgLog[2].prev = Some(bgLog[1].index)
    /\ bgCall.data = <<>>
    /\ bgCall.prev = Some(bgLog[2].index)
    /\ bgCall.ret = bgCall.prev
    /\ bgCall.calls = BgMaxPushes

\* C14: reverse_follow_iter(i) yields depth(i) items and then ends; the first
\* item is (payload of i, i) and every index yielded is strictly below the
\* one before it.
C14_FollowIterEndsAtDepth ==
    bgIter # None =>
        LET it == bgIter[1]
        IN  /\ Len(bgYield) <= depth(it.at)
            /\ it.last # None => Len(bgYield) < depth(it.at)
            /\ it.last = None => Len(bgYield) = depth(it.at)
            /\ it.ended => it.last = None
            /\ bgYield # <<>> =>
                 bgYield[1] = [data |-> LogOf(it.at).data, index |-> it.at]
            /\ \A j \in 2..Len(bgYield) : bgYield[j].index < bgYield[j - 1].index

C14_Witness ==
    /\ bgIter # None
    /\ bgIter[1].ended
    /\ Len(bgYield) = 3
    /\ depth(bgIter[1].at) = 3
    /\ Len(bgLog) > 3

\* C15: path_of(sep, i) is the payloads on the predecessor chain of i, root
\* first, joined by sep with no separator in front or behind; "a", "b" under
\* it and "c" under that give "a/b/c", other records in between or not.
C15_PathOfJoinsChain ==
    bgPath # None =>
        LET p == bgPath[1]
        IN  /\ p.result = join(ChainOf(p.at), p.sep)
            /\ (ChainOf(p.at) = << <<97>>, <<98>>, <<99>> >> /\ p.sep = <<47>>) =>
                   p.result = <<97, 47, 98, 47, 99>>

C15_Witness ==
    /\ bgPath # None
    /\ bgPath[1].sep = <<47>>
    /\ bgPath[1].result = <<97, 47, 98, 47, 99>>
    /\ Len(bgLog) = 4
    /\ bgLog[4].index = bgPath[1].at
    /\ bgLog[4].prev = Some(bgLog[2].index)

\* The payloads met by following skip indices from `at` down to the first record
RECURSIVE skip_walk(_, _)
skip_walk(data, at) ==
    IF at = None
    THEN <<>>
    ELSE LET r == reverse_skip(data, at[1])
         IN  << r.data >> \o skip_walk(data, r.skip)

\* C16: reverse_skip(i) returns the payload of record i and the index of the
\* record pushed just before it (None for the first), whatever the
\* predecessor links are; following skip indices from last_index visits
\* every record once, in reverse insertion order.
C16_SkipWalksInsertionOrder ==
    /\ \A k \in 1..Len(bgLog) :
         reverse_skip(bgData, bgLog[k].index)
           = [data |-> bgLog[k].data,
              skip |-> IF k = 1 THEN None ELSE Some(bgLog[k - 1].index)]
    /\ last_index(bgData) = IF bgLog = <<>> THEN None ELSE Some(bgLog[Len(bgLog)].index)
    /\ skip_walk(bgData, last_index(bgData)) = Rev([k \in 1..Len(bgLog) |-> bgLog[k].data])

C16_Witness ==
    /\ Len(bgLog) = 3
    /\ bgLog[1].data = LongPayload
    /\ bgLog[2].prev = None
    /\ bgLog[3].prev = Some(bgLog[1].index)
    /\ reverse_skip(bgData, bgLog[3].index).skip = Some(bgLog[2].index)
    /\ reverse_follow(bgData, bgLog[3].index).prev = Some(bgLog[1].index)

\* ------------------------------------------------------------------------
\* Part 5.  store/mod.rs, DiffingIter<O, N> with O and N slice iterators
\* over entries [name, value] (NamedValue: get_name, get_value).
\* ------------------------------------------------------------------------

DfNames == 1..3

DfValues == {1, 2}

DfEntries == [name : DfNames, value : DfValues]

RECURSIVE SeqsUpTo(_, _)
SeqsUpTo(S, n) ==
    IF n = 0 THEN { <<>> }
    ELSE SeqsUpTo(S, n - 1)
           \cup { Append(q, e) : q \in { p \in SeqsUpTo(S, n - 1) : Len(p) = n - 1 }, e \in S }

\* The inputs: every sequence of entries up to the bound, sorted or not
DfInputs == SeqsUpTo(DfEntries, DfMaxLen)

\* Iterator::next of a slice iterator: [item, rest]
slice_next(it) ==
    IF it = <<>> THEN [item |-> None, rest |-> it]
    ELSE [item |-> Some(Head(it)), rest |-> Tail(it)]

\* Iterator::size_hint of a slice iterator: exact
slice_size_hint(it) == [lower |-> Len(it), upper |-> Some(Len(it))]

\* DiffResult
Added(e) == [type |-> "Added", e |-> e, n |-> None]

Removed(e) == [type |-> "Removed", e |-> e, n |-> None]

Changed(o, n) == [type |-> "Changed", e |-> o, n |-> Some(n)]

Same(e) == [type |-> "Same", e |-> e, n |-> None]

\* Ord::cmp on names
cmp(a, b) == IF a < b THEN "Less" ELSE IF a > b THEN "Greater" ELSE "Equal"

\* DiffingIter::next on the heads (co, cn): the item returned and which of the
\* inputs is advanced (curr_x replaced by x.next())
next_Swapped(co, cn) ==
    IF co = None /\ cn # None THEN [item |-> Some(Added(cn[1])), old |-> FALSE, new |-> TRUE]
    ELSE IF co # None /\ cn = None THEN [item |-> Some(Removed(co[1])), old |-> TRUE, new |-> FALSE]
    ELSE IF co = None /\ cn = None THEN [item |-> None, old |-> FALSE, new |-> FALSE]
    ELSE LET o == co[1]
             n == cn[1]
             ord == cmp(o.name, n.name)
         IN  IF ord = "Equal"
             THEN IF o.value = n.value
                  THEN [item |-> Some(Same(o)), old |-> TRUE, new |-> TRUE]
                  ELSE [item |-> Some(Changed(o, n)), old |-> TRUE, new |-> TRUE]
             ELSE IF ord = "Less"
             THEN [item |-> Some(Added(n)), old |-> FALSE, new |-> TRUE]
             ELSE [item |-> Some(Removed(o)), old |-> TRUE, new |-> FALSE]

next_SameKeepsNew(co, cn) ==
    IF co = None /\ cn # None THEN [item |-> Some(Added(cn[1])), old |-> FALSE, new |-> TRUE]
    ELSE IF co # None /\ cn = None THEN [item |-> Some(Removed(co[1])), old |-> TRUE, new |-> FALSE]
    ELSE IF co = None /\ cn = None THEN [item |-> None, old |-> FALSE, new |-> FALSE]
    ELSE LET o == co[1]
             n == cn[1]
             ord == cmp(o.name, n.name)
         IN  IF ord = "Equal"
             THEN IF o.value = n.value
                  THEN [item |-> Some(Same(o)), old |-> TRUE, new |-> FALSE]
                  ELSE [item |-> Some(Changed(o, n)), old |-> TRUE, new |-> TRUE]
             ELSE IF ord = "Greater"
             THEN [item |-> Some(Added(n)), old |-> FALSE, new |-> TRUE]
             ELSE [item |-> Some(Removed(o)), old |-> TRUE, new |-> FALSE]

next(co, cn) ==
    IF co = None /\ cn # None THEN [item |-> Some(Added(cn[1])), old |-> FALSE, new |-> TRUE]
    ELSE IF co # None /\ cn = None THEN [item |-> Some(Removed(co[1])), old |-> TRUE, new |-> FALSE]
    ELSE IF co = None /\ cn = None THEN [item |-> None, old |-> FALSE, new |-> FALSE]
    ELSE LET o == co[1]
             n == cn[1]
             ord == cmp(o.name, n.name)
         IN  IF ord = "Equal"
             THEN IF o.value = n.value
                  THEN [item |-> Some(Same(o)), old |-> TRUE, new |-> TRUE]
                  ELSE [item |-> Some(Changed(o, n)), old |-> TRUE, new |-> TRUE]
             ELSE IF ord = "Greater"
             THEN [item |-> Some(Added(n)), old |-> FALSE, new |-> TRUE]
             ELSE [item |-> Some(Removed(o)), old |-> TRUE, new |-> FALSE]

\* DiffingIter::size_hint from the size hints of self.old and self.new
size_hint(a, b) ==
    [lower |-> Max(a.lower, b.lower),
     upper |-> IF a.upper # None /\ b.upper # None THEN Some(Max(a.upper[1], b.upper[1]))
               ELSE IF a.upper # None THEN a.upper
               ELSE IF b.upper # None THEN b.upper
               ELSE None]

\* ExactSizeIterator::len: the lower bound of size_hint
len(a, b) == size_hint(a, b).lower

DiffInit ==
    /\ RunnerIdle
    /\ PmIdle
    /\ LsIdle
    /\ ViIdle
    /\ BgIdle
    /\ HaIdle
    /\ HcIdle
    /\ ApIdle
    /\ CrIdle
    /\ MhIdle
    /\ FsIdle
    /\ ZfIdle
    /\ MsIdle
    /\ dfOldAll \in DfInputs
    /\ dfNewAll \in DfInputs
    /\ dfOld = dfOldAll
    /\ dfNew = dfNewAll
    /\ curr_old = None
    /\ curr_new = None
    /\ dfOut = <<>>
    /\ dfPc = "input"

\* DiffingIter::new(old, new): one item is pulled from each input
DfNew ==
    /\ dfPc = "input"
    /\ curr_old' = slice_next(dfOld).item
    /\ dfOld' = slice_next(dfOld).rest
    /\ curr_new' = slice_next(dfNew).item
    /\ dfNew' = slice_next(dfNew).rest
    /\ dfPc' = "iter"
    /\ UNCHANGED << dfOldAll, dfNewAll, dfOut >>
    /\ UNCHANGED notDiff

\* DiffingIter::next
DfNext ==
    /\ dfPc = "iter"
    /\ LET r == next(curr_old, curr_new)
       IN  /\ dfOut' = IF r.item = None THEN dfOut ELSE Append(dfOut, r.item[1])
           /\ dfPc' = IF r.item = None THEN "ended" ELSE "iter"
           /\ curr_old' = IF r.old THEN slice_next(dfOld).item ELSE curr_old
           /\ dfOld' = IF r.old THEN slice_next(dfOld).rest ELSE dfOld
           /\ curr_new' = IF r.new THEN slice_next(dfNew).item ELSE curr_new
           /\ dfNew' = IF r.new THEN slice_next(dfNew).rest ELSE dfNew
    /\ UNCHANGED << dfOldAll, dfNewAll >>
    /\ UNCHANGED notDiff

DiffNext ==
    \/ DfNew
    \/ DfNext

SpecDiff == DiffInit /\ [][DiffNext]_vars

\* The record a step of next() returned, if it returned one
DfEmitted == IF Len(dfOut') > Len(dfOut) THEN Some(dfOut'[Len(dfOut')]) ELSE None

\* A step of next() advanced the old / the new input, or left it alone
DfOldAdvanced == curr_old' = slice_next(dfOld).item /\ dfOld' = slice_next(dfOld).rest

DfOldKept == curr_old' = curr_old /\ dfOld' = dfOld

DfNewAdvanced == curr_new' = slice_next(dfNew).item /\ dfNew' = slice_next(dfNew).rest

DfNewKept == curr_new' = curr_new /\ dfNew' = dfNew

\* C18: a call of next with heads (o, n): both absent ends the sequence; only
\* n emits Added(n) and advances new; only o emits Removed(o) and advances
\* old; equal names emit Same(o) on equal contents and Changed(o, n)
\* otherwise, advancing both; o.name < n.name emits Removed(o) and advances
\* old only; o.name > n.name emits Added(n) and advances new only.  A
\* sequence diffed against itself yields Same for every entry, in order.
C18_NextByHeads ==
    /\ [][DfNext =>
            IF curr_old = None /\ curr_new = None
            THEN DfEmitted = None /\ dfPc' = "ended" /\ DfOldKept /\ DfNewKept
            ELSE IF curr_old = None
            THEN DfEmitted = Some(Added(curr_new[1])) /\ DfNewAdvanced /\ DfOldKept
            ELSE IF curr_new = None
            THEN DfEmitted = Some(Removed(curr_old[1])) /\ DfOldAdvanced /\ DfNewKept
            ELSE IF curr_old[1].name = curr_new[1].name
            THEN /\ DfOldAdvanced /\ DfNewAdvanced
                 /\ DfEmitted = IF curr_old[1].value = curr_new[1].value
                                THEN Some(Same(curr_old[1]))
                                ELSE Some(Changed(curr_old[1], curr_new[1]))
            ELSE IF curr_old[1].name < curr_new[1].name
            THEN DfEmitted = Some(Removed(curr_old[1])) /\ DfOldAdvanced /\ DfNewKept
            ELSE DfEmitted = Some(Added(curr_new[1])) /\ DfNewAdvanced /\ DfOldKept
         ]_vars
    /\ []((dfPc = "ended" /\ dfOldAll = dfNewAll) =>
            dfOut = [i \in 1..Len(dfOldAll) |-> Same(dfOldAll[i])])

C18_Witness ==
    /\ dfPc = "ended"
    /\ Len(dfOut) = 3
    /\ dfOut[1].type = "Changed"
    /\ dfOut[2].type = "Removed"
    /\ dfOut[3].type = "Added"

\* Name-sorted with no name twice
DfSorted(q) == \A i, j \in 1..Len(q) : i < j => q[i].name < q[j].name

DfNamesOf(q) == { q[i].name : i \in 1..Len(q) }

DfCount(type) == Cardinality({ i \in 1..Len(dfOut) : dfOut[i].type = type })

\* C19: for name-sorted inputs without repeated names the iterator emits one
\* record per name of old and new together, in increasing name order, with
\* #Added + #Same + #Changed = |new| and #Removed + #Same + #Changed = |old|,
\* and it never emits more than |old| + |new| records.
C19_OneRecordPerName ==
    (DfSorted(dfOldAll) /\ DfSorted(dfNewAll)) =>
        /\ Len(dfOut) <= Len(dfOldAll) + Len(dfNewAll)
        /\ \A i, j \in 1..Len(dfOut) : i < j => dfOut[i].e.name < dfOut[j].e.name
        /\ \A i \in 1..Len(dfOut) :
             /\ dfOut[i].type = "Added" =>
                  dfOut[i].e.name \in DfNamesOf(dfNewAll) \ DfNamesOf(dfOldAll)
             /\ dfOut[i].type = "Removed" =>
                  dfOut[i].e.name \in DfNamesOf(dfOldAll) \ DfNamesOf(dfNewAll)
             /\ dfOut[i].type \in {"Same", "Changed"} =>
                  dfOut[i].e.name \in DfNamesOf(dfOldAll) \cap DfNamesOf(dfNewAll)
        /\ dfPc = "ended" =>
             /\ { dfOut[i].e.name : i \in 1..Len(dfOut) }
                  = DfNamesOf(dfOldAll) \cup DfNamesOf(dfNewAll)
             /\ Len(dfOut) = Cardinality(DfNamesOf(dfOldAll) \cup DfNamesOf(dfNewAll))
             /\ DfCount("Added") + DfCount("Same") + DfCount("Changed") = Len(dfNewAll)
             /\ DfCount("Removed") + DfCount("Same") + DfCount("Changed") = Len(dfOldAll)

C19_Witness ==
    /\ dfPc = "ended"
    /\ DfSorted(dfOldAll)
    /\ DfSorted(dfNewAll)
    /\ Len(dfOldAll) = DfMaxLen
    /\ Len(dfNewAll) = DfMaxLen
    /\ DfCount("Removed") = 1
    /\ DfCount("Added") = 1
    /\ DfCount("Changed") + DfCount("Same") = DfMaxLen - 1

\* The records next() will still return from the heads (co, cn) and the
\* items the inputs have left
RECURSIVE DfRemaining(_, _, _, _)
DfRemaining(co, cn, old, new) ==
    LET r == next(co, cn)
    IN  IF r.item = None THEN 0
        ELSE 1 + DfRemaining(IF r.old THEN slice_next(old).item ELSE co,
                             IF r.new THEN slice_next(new).item ELSE cn,
                             IF r.old THEN slice_next(old).rest ELSE old,
                             IF r.new THEN slice_next(new).rest ELSE new)

\* C20: size_hint is (max of the inputs' lower bounds, max of their upper
\* bounds), and with inputs of exact size the length reported, at
\* construction and after any number of next() calls, is the number of
\* records still to come.
C20_LenIsRemaining ==
    dfPc \in {"iter", "ended"} =>
        /\ size_hint(slice_size_hint(dfOld), slice_size_hint(dfNew))
             = [lower |-> Max(Len(dfOld), Len(dfNew)),
                upper |-> Some(Max(Len(dfOld), Len(dfNew)))]
        /\ len(slice_size_hint(dfOld), slice_size_hint(dfNew))
             = DfRemaining(curr_old, curr_new, dfOld, dfNew)

\* ==========================================================================
\* Part 6: HashArray<N> (hasher/mod.rs)
\* ==========================================================================

\* size_of::<DataChunk>() for DataChunk = u64
DataChunkSize == 8

\* HashArray::zero(): N zero bytes
zero(n) == [i \in 1..n |-> 0]

\* array[index] = byte (set_slice with a one byte slice); index counts from 0
set_slice(array, index, byte) == [array EXCEPT ![index + 1] = byte]

\* The middle part of array.align_to::<DataChunk>(): the type is align(8), so
\* the prefix is empty, the middle holds N / 8 whole words and the N % 8
\* trailing bytes are the suffix, which nobody reads. A word is kept as its
\* 8 bytes in memory order.
aligned_chunks(array) ==
    [k \in 1..(Len(array) \div DataChunkSize) |->
        SubSeq(array, DataChunkSize * (k - 1) + 1, DataChunkSize * k)]

\* HashArray::aligned_data_chunks: the words of self zipped with those of other
aligned_data_chunks(self, other) ==
    [k \in 1..Len(aligned_chunks(self)) |->
        << aligned_chunks(self)[k], aligned_chunks(other)[k] >>]

\* u64::cmp of two words read from memory on a little-endian host: the byte
\* at the highest address is the most significant
RECURSIVE DataChunk_cmp_from(_, _, _)
DataChunk_cmp_from(a, b, i) ==
    IF i = 0 THEN "Equal"
    ELSE IF a[i] < b[i] THEN "Less"
    ELSE IF a[i] > b[i] THEN "Greater"
    ELSE DataChunk_cmp_from(a, b, i - 1)

DataChunk_cmp(a, b) == DataChunk_cmp_from(a, b, DataChunkSize)

\* impl Ord for HashArray: the loop over aligned_data_chunks(other).rev()
RECURSIVE HashArray_cmp_from(_, _)
HashArray_cmp_from(chunks, k) ==
    IF k = 0 THEN "Equal"
    ELSE LET res == DataChunk_cmp(chunks[k][1], chunks[k][2])
         IN  IF res # "Equal" THEN res ELSE HashArray_cmp_from(chunks, k - 1)

HashArray_cmp(self, other) ==
    LET chunks == aligned_data_chunks(self, other)
    IN  HashArray_cmp_from(chunks, Len(chunks))

\* The lengths HashArray is instantiated with: fingerprints (32), block
\* headers (64) and the codec payload of the main header (57)
HaLengths == {32, 57, 64}

\* Bytes written into an array, at most this many in both arrays together
HaMaxSets == 2

HaBytes == {1, 2}

\* The first and last byte of the lowest word, of the highest whole word and
\* the bytes around it
HaPositions(n) == {0, 7, 8, n - 9, n - 8, n - 1}

HaNonZero(array) == Cardinality({i \in 1..Len(array) : array[i] # 0})

HashArrayInit ==
    /\ RunnerIdle
    /\ PmIdle
    /\ LsIdle
    /\ ViIdle
    /\ BgIdle
    /\ DfIdle
    /\ HcIdle
    /\ ApIdle
    /\ CrIdle
    /\ MhIdle
    /\ FsIdle
    /\ ZfIdle
    /\ MsIdle
    /\ \E n \in HaLengths :
        /\ haA = zero(n)
        /\ haB = zero(n)
    /\ haCmp = None

\* One byte of self or of other is set
HaSetSlice ==
    /\ HaNonZero(haA) + HaNonZero(haB) < HaMaxSets
    /\ \E index \in HaPositions(Len(haA)), byte \in HaBytes :
        \/ haA' = set_slice(haA, index, byte) /\ haB' = haB
        \/ haB' = set_slice(haB, index, byte) /\ haA' = haA
    /\ haCmp' = None
    /\ UNCHANGED notHashArray

\* self.cmp(&other)
HaCmp ==
    /\ haCmp = None
    /\ haCmp' = Some(HashArray_cmp(haA, haB))
    /\ UNCHANGED << haA, haB >>
    /\ UNCHANGED notHashArray

HashArrayNext == HaSetSlice \/ HaCmp

SpecHashArray == HashArrayInit /\ [][HashArrayNext]_vars

\* C26: the ordering of HashArray is consistent with byte-wise equality, for
\* every length N the type is used with: a.cmp(b) is Equal exactly when a and
\* b are equal byte for byte.
C26_CmpEqualIffBytesEqual ==
    haCmp # None => ((haCmp[1] = "Equal") <=> (haA = haB))

\* ==========================================================================
\* Part 7: HashesChunk and HashesIterChunk (file/chunks/hashes_chunk.rs)
\* ==========================================================================

\* io::Result
Ok(v) == [ok |-> TRUE, value |-> v]

Err(kind) == [ok |-> FALSE, kind |-> kind]

\* uN::to_le_bytes for a value the model can hold, w bytes wide
RECURSIVE to_le_bytes(_, _)
to_le_bytes(n, w) ==
    IF w = 0 THEN <<>> ELSE << n % 256 >> \o to_le_bytes(n \div 256, w - 1)

\* uN::from_le_bytes
RECURSIVE from_le_bytes(_)
from_le_bytes(bytes) ==
    IF bytes = <<>> THEN 0 ELSE bytes[1] + 256 * from_le_bytes(Tail(bytes))

\* b"hSb"
BLOCK_HEADER_MAGIC == << 104, 83, 98 >>

\* The codes of enum BlockType: None, MainHeader, Hashes, Names, Reserved,
\* MoreBlocks
BlockTypes == {0, 1, 2, 3, 254, 255}

BlockType_Hashes == 2

\* BlockType::magic
magic(self) == BLOCK_HEADER_MAGIC \o << self >>

\* BlockType::require_magic with decode_magic_code: None when the header is
\* the one of block type self, else the kind of the error
require_magic(self, header) ==
    IF SubSeq(header, 1, Len(BLOCK_HEADER_MAGIC)) # BLOCK_HEADER_MAGIC
    THEN Some("InvalidData")
    ELSE LET code == header[Len(BLOCK_HEADER_MAGIC) + 1]
         IN  IF code \notin BlockTypes THEN Some("InvalidData")
             ELSE IF code # self THEN Some("InvalidData")
             ELSE None

\* enum SortOrder and its repr(u8) discriminants
SortOrders == {"Unordered", "SortedByName", "Unknown", "SortedByData"}

SortOrder_as_u32(sort) ==
    CASE sort = "Unordered" -> 0
      [] sort = "SortedByName" -> 1
      [] sort = "Unknown" -> 2
      [] sort = "SortedByData" -> 3

\* enum HashType and impl_fingerprint!
HashTypes == {"Sha256", "Blake3"}

\* b"Sha2_256" and b"Blake3__"
get_fingerprint(self) ==
    IF self = "Sha256"
    THEN << 83, 104, 97, 50, 95, 50, 53, 54 >>
    ELSE << 66, 108, 97, 107, 101, 51, 95, 95 >>

\* b"Sha2_256" | b"Sha256__" | b"Sha2-256" and b"Blake3__" | b"BLAKE3__"
from_fingerprint(fp) ==
    IF fp \in { << 83, 104, 97, 50, 95, 50, 53, 54 >>,
                << 83, 104, 97, 50, 53, 54, 95, 95 >>,
                << 83, 104, 97, 50, 45, 50, 53, 54 >> }
    THEN Some("Sha256")
    ELSE IF fp \in { << 66, 108, 97, 107, 101, 51, 95, 95 >>,
                     << 66, 76, 65, 75, 69, 51, 95, 95 >> }
    THEN Some("Blake3")
    ELSE None

\* HashesHeader::to_array.  A header is [size, sort, name_hash, data_hash];
\* size, a u64, is kept as its 8 little-endian bytes.
HashesHeader_to_array(self) ==
    magic(BlockType_Hashes)
        \o to_le_bytes(SortOrder_as_u32(self.sort) % 4, 4)
        \o self.size
        \o get_fingerprint(self.name_hash)
        \o get_fingerprint(self.data_hash)
        \o zero(32)

\* HashesHeader::from_array with the flags read as FLAG_SORTED alone
HashesHeader_from_array_FlagSorted(array) ==
    LET m == require_magic(BlockType_Hashes, SubSeq(array, 1, 4))
        name_hash == from_fingerprint(SubSeq(array, 17, 24))
        data_hash == from_fingerprint(SubSeq(array, 25, 32))
    IN  IF m # None THEN Err(m[1])
        ELSE IF name_hash = None \/ data_hash = None THEN Err("Unsupported")
        ELSE Ok([size |-> SubSeq(array, 9, 16),
                 sort |-> IF array[5] % 2 = 1 THEN "SortedByName" ELSE "Unordered",
                 name_hash |-> name_hash[1], data_hash |-> data_hash[1]])

\* HashesHeader::from_array.  flags & 0x3 depends on the lowest byte of the
\* little-endian u32 at 4..8 only.
HashesHeader_from_array(array) ==
    LET m == require_magic(BlockType_Hashes, SubSeq(array, 1, 4))
        flags == array[5] % 4
        sort == CASE flags = 0 -> "Unordered"
                  [] flags = 1 -> "SortedByName"
                  [] flags = 3 -> "SortedByData"
                  [] OTHER -> "Unknown"
        name_hash == from_fingerprint(SubSeq(array, 17, 24))
        data_hash == from_fingerprint(SubSeq(array, 25, 32))
    IN  IF m # None THEN Err(m[1])
        ELSE IF name_hash = None THEN Err("Unsupported")
        ELSE IF data_hash = None THEN Err("Unsupported")
        ELSE Ok([size |-> SubSeq(array, 9, 16), sort |-> sort,
                 name_hash |-> name_hash[1], data_hash |-> data_hash[1]])

\* HashesHeader::read: read_exact of 64 bytes, then from_array
HashesHeader_read(read) ==
    IF Len(read) < 64 THEN Err("UnexpectedEof")
    ELSE HashesHeader_from_array(SubSeq(read, 1, 64))

\* A DataEntry viewed as bytes (as_buf, align_to::<u8>): id, then data
as_buf(entry) == entry.id \o entry.data

\* The i-th DataEntry of a body of raw bytes
EntryAt(bytes, i) ==
    [id |-> SubSeq(bytes, 64 * (i - 1) + 1, 64 * (i - 1) + 32),
     data |-> SubSeq(bytes, 64 * (i - 1) + 33, 64 * i)]

RECURSIVE BodyBytes(_)
BodyBytes(data) ==
    IF data = <<>> THEN <<>> ELSE as_buf(Head(data)) \o BodyBytes(Tail(data))

\* HashesChunk::read_body with header.size cut to its low 32 bits
read_body_Truncating(header, read) ==
    LET n == from_le_bytes(SubSeq(header.size, 1, 4))
    IN  IF Len(read) < 64 * n THEN Err("UnexpectedEof")
        ELSE Ok([data |-> [i \in 1..n |-> EntryAt(read, i)], sort |-> header.sort,
                 name_hash |-> header.name_hash, data_hash |-> header.data_hash])

\* HashesChunk::read_body; read is what the stream holds after the header.
\* header.size > u32::MAX exactly when one of its upper four bytes is set.
read_body(header, read) ==
    IF SubSeq(header.size, 5, 8) # zero(4) THEN Err("Unsupported")
    ELSE LET n == from_le_bytes(SubSeq(header.size, 1, 4))
         IN  IF Len(read) < 64 * n THEN Err("UnexpectedEof")
             ELSE Ok([data |-> [i \in 1..n |-> EntryAt(read, i)], sort |-> header.sort,
                      name_hash |-> header.name_hash, data_hash |-> header.data_hash])

\* HashesChunk::read
HashesChunk_read(read) ==
    LET header == HashesHeader_read(read)
    IN  IF ~header.ok THEN header
        ELSE read_body(header.value, SubSeq(read, 65, Len(read)))

\* HashesChunk::write into an empty Vec<u8>: the bytes written.  No chunk of
\* the model has more than u32::MAX entries, the one case write refuses.
HashesChunk_write(self) ==
    Ok(HashesHeader_to_array([size |-> to_le_bytes(Len(self.data), 8), sort |-> self.sort,
                              name_hash |-> self.name_hash, data_hash |-> self.data_hash])
        \o BodyBytes(self.data))

\* HashesChunk::new_sha256
new_sha256(data, sorted) ==
    [data |-> data, sort |-> "SortedByName", name_hash |-> "Sha256", data_hash |-> "Sha256"]

\* The comparison of a HashEntry whose fields were declared data first
HashEntry_cmp_DataFirst(a, b) ==
    LET res == HashArray_cmp(a.data, b.data)
    IN  IF res # "Equal" THEN res ELSE HashArray_cmp(a.id, b.id)

\* #[derive(PartialOrd, Ord)] on HashEntry: id first, then data
HashEntry_cmp(a, b) ==
    LET res == HashArray_cmp(a.id, b.id)
    IN  IF res # "Equal" THEN res ELSE HashArray_cmp(a.data, b.data)

\* HashesChunk::verify_sorted
verify_sorted(self) ==
    \A i \in 1..(Len(self.data) - 1) :
        HashEntry_cmp(self.data[i], self.data[i + 1]) # "Greater"

\* HashesChunk::verify_update_sorted
verify_update_sorted(self) ==
    [self EXCEPT !.sort = IF verify_sorted(self) THEN "SortedByName" ELSE "Unordered"]

\* slice::sort_unstable under Ord of HashEntry: entries that compare Equal
\* are the same 64 bytes, so the result is the one this insertion builds
RECURSIVE sort_insert(_, _)
sort_insert(e, sorted) ==
    IF sorted = <<>> THEN << e >>
    ELSE IF HashEntry_cmp(e, Head(sorted)) = "Greater"
         THEN << Head(sorted) >> \o sort_insert(e, Tail(sorted))
         ELSE << e >> \o sorted

RECURSIVE sort_unstable(_)
sort_unstable(data) ==
    IF data = <<>> THEN <<>>
    ELSE sort_insert(Head(data), sort_unstable(Tail(data)))

\* HashesChunk::sort
sort(self) ==
    [self EXCEPT !.data = sort_unstable(self.data), !.sort = "SortedByName"]

\* Most entries of a chunk
HcMaxEntries == 2

\* Two fingerprints: hLow has its set byte in the lowest word, hHigh in the
\* second word, so hLow < hHigh although byte 0 of hLow is the larger one
hLow == set_slice(zero(32), 0, 2)

hHigh == set_slice(zero(32), 8, 1)

HcEntries ==
    { [id |-> hLow, data |-> hLow], [id |-> hLow, data |-> hHigh], [id |-> hHigh, data |-> hLow] }

HcDatas == SeqsUpTo(HcEntries, HcMaxEntries)

\* Every chunk a struct literal can build over these entries
HcChunks == [data : HcDatas, sort : SortOrders, name_hash : HashTypes, data_hash : HashTypes]

\* The well-formed streams: what write emits for some chunk
HcFiles == { HashesChunk_write(c).value : c \in HcChunks }

\* A program that builds, loads, sorts and verifies chunks
ChunkInit ==
    /\ RunnerIdle
    /\ PmIdle
    /\ LsIdle
    /\ ViIdle
    /\ BgIdle
    /\ DfIdle
    /\ HaIdle
    /\ ApIdle
    /\ CrIdle
    /\ MhIdle
    /\ FsIdle
    /\ ZfIdle
    /\ MsIdle
    /\ hcChunk = None
    /\ hcStream \in HcFiles
    /\ hcRead = None
    /\ hcOp = "none"
    /\ hcIter = None
    /\ hcYield = <<>>

\* let chunk = HashesChunk::new_sha256(data, sorted)
HcNewSha256 ==
    /\ hcChunk = None
    /\ \E data \in HcDatas, sorted \in BOOLEAN :
        hcChunk' = Some(new_sha256(data, sorted))
    /\ hcOp' = "new_sha256"
    /\ UNCHANGED << hcStream, hcRead, hcIter, hcYield >>
    /\ UNCHANGED notChunk

\* let chunk = HashesChunk::read(&mut stream)?
HcReadChunk ==
    /\ hcChunk = None
    /\ LET r == HashesChunk_read(hcStream)
       IN  /\ r.ok
           /\ hcChunk' = Some(r.value)
    /\ hcOp' = "read"
    /\ UNCHANGED << hcStream, hcRead, hcIter, hcYield >>
    /\ UNCHANGED notChunk

\* chunk.sort()
HcSort ==
    /\ hcChunk # None
    /\ hcChunk' = Some(sort(hcChunk[1]))
    /\ hcOp' = "sort"
    /\ UNCHANGED << hcStream, hcRead, hcIter, hcYield >>
    /\ UNCHANGED notChunk

\* chunk.verify_update_sorted()
HcVerifyUpdateSorted ==
    /\ hcChunk # None
    /\ hcChunk' = Some(verify_update_sorted(hcChunk[1]))
    /\ hcOp' = "verify_update_sorted"
    /\ UNCHANGED << hcStream, hcRead, hcIter, hcYield >>
    /\ UNCHANGED notChunk

ChunkNext == HcNewSha256 \/ HcReadChunk \/ HcSort \/ HcVerifyUpdateSorted

SpecChunk == ChunkInit /\ [][ChunkNext]_vars

\* How often entry e occurs in data
HcCount(data, e) == Cardinality({i \in 1..Len(data) : data[i] = e})

HcPermutation(p, q) ==
    /\ Len(p) = Len(q)
    /\ \A e \in HcEntries : HcCount(p, e) = HcCount(q, e)

\* Every adjacent pair (a, b) has a.name_hash <= b.name_hash
HcNamesAscend(data) ==
    \A i \in 1..(Len(data) - 1) : HashArray_cmp(data[i].id, data[i + 1].id) # "Greater"

\* Ordered by (name_hash, content_hash)
HcOrdered(data) ==
    \A i \in 1..(Len(data) - 1) :
        \/ HashArray_cmp(data[i].id, data[i + 1].id) = "Less"
        \/ /\ data[i].id = data[i + 1].id
           /\ HashArray_cmp(data[i].data, data[i + 1].data) # "Greater"

\* C21: after sort() the entries are a permutation of those before the call,
\* ordered by (name_hash, content_hash); every adjacent pair has
\* a.name_hash <= b.name_hash, verify_sorted() is true, the tag is
\* SortedByName and the hash types are untouched.
C21_SortSortsByName ==
    [][HcSort =>
        /\ HcPermutation(hcChunk[1].data, hcChunk'[1].data)
        /\ HcOrdered(hcChunk'[1].data)
        /\ HcNamesAscend(hcChunk'[1].data)
        /\ verify_sorted(hcChunk'[1])
        /\ hcChunk'[1].sort = "SortedByName"
        /\ hcChunk'[1].name_hash = hcChunk[1].name_hash
        /\ hcChunk'[1].data_hash = hcChunk[1].data_hash]_vars

\* sort() has put two entries that differ in the name hash into order
C21_Witness ==
    /\ hcOp = "sort"
    /\ hcChunk # None
    /\ Len(hcChunk[1].data) = 2
    /\ hcChunk[1].data[1].id = hLow
    /\ hcChunk[1].data[2].id = hHigh

\* C22: after any sequence of new_sha256 (with either value of sorted), read,
\* sort and verify_update_sorted, a chunk tagged SortedByName has
\* a.name_hash <= b.name_hash for every adjacent pair of entries (a, b).
C22_SortedTagMeansSorted ==
    (hcChunk # None /\ hcChunk[1].sort = "SortedByName") => HcNamesAscend(hcChunk[1].data)

\* --------------------------------------------------------------------------
\* Writing a chunk, damaging the stream, reading it back
\* --------------------------------------------------------------------------

\* The damage done to a written stream: << position, byte >>.  Positions 0..3
\* hold the magic and the type byte, 4..7 the flags, 8..15 the count, 16..31
\* the two fingerprints, 32..63 are reserved and 64.. is the body.
HcEdits ==
    { << 0, 0 >>, << 1, 0 >>, << 2, 0 >>,
      << 3, 0 >>, << 3, 1 >>, << 3, 3 >>, << 3, 7 >>,
      << 4, 0 >>, << 4, 1 >>, << 4, 2 >>, << 4, 3 >>, << 4, 4 >>, << 5, 1 >>,
      << 8, 0 >>, << 8, 1 >>, << 8, 2 >>, << 8, 3 >>, << 8, 4 >>, << 9, 1 >>, << 11, 1 >>,
      << 12, 1 >>, << 15, 255 >>,
      << 16, 0 >>, << 20, 45 >>, << 23, 0 >>, << 24, 0 >>, << 28, 45 >>, << 31, 0 >>,
      << 32, 1 >>, << 63, 1 >>, << 64, 9 >> }

\* Where a written stream of size bytes is cut off
HcCuts(size) == { n \in {0, 63, 64, size - 64, size - 1} : 0 <= n /\ n < size }

\* A program that holds a chunk built as a struct literal
ChunkIOInit ==
    /\ RunnerIdle
    /\ PmIdle
    /\ LsIdle
    /\ ViIdle
    /\ BgIdle
    /\ DfIdle
    /\ HaIdle
    /\ ApIdle
    /\ CrIdle
    /\ MhIdle
    /\ FsIdle
    /\ ZfIdle
    /\ MsIdle
    /\ hcChunk \in { Some(c) : c \in HcChunks }
    /\ hcStream = <<>>
    /\ hcRead = None
    /\ hcOp = "none"
    /\ hcIter = None
    /\ hcYield = <<>>

\* chunk.write(&mut stream) into an empty stream
HcWrite ==
    /\ hcOp # "write"
    /\ LET w == HashesChunk_write(hcChunk[1])
       IN  hcStream' = IF w.ok THEN w.value ELSE <<>>
    /\ hcRead' = None
    /\ hcOp' = "write"
    /\ UNCHANGED << hcChunk, hcIter, hcYield >>
    /\ UNCHANGED notChunk

\* One byte of the written stream is changed
HcEdit ==
    /\ hcOp = "write"
    /\ \E e \in HcEdits :
        /\ e[1] < Len(hcStream)
        /\ hcStream[e[1] + 1] # e[2]
        /\ hcStream' = set_slice(hcStream, e[1], e[2])
    /\ hcRead' = None
    /\ hcOp' = "edit"
    /\ UNCHANGED << hcChunk, hcIter, hcYield >>
    /\ UNCHANGED notChunk

\* The written stream loses its end
HcTruncate ==
    /\ hcOp = "write"
    /\ \E n \in HcCuts(Len(hcStream)) : hcStream' = SubSeq(hcStream, 1, n)
    /\ hcRead' = None
    /\ hcOp' = "truncate"
    /\ UNCHANGED << hcChunk, hcIter, hcYield >>
    /\ UNCHANGED notChunk

\* HashesChunk::read(&mut stream) from the start of the stream
HcRead ==
    /\ hcOp \in {"write", "edit", "truncate"}
    /\ hcRead = None
    /\ hcRead' = Some(HashesChunk_read(hcStream))
    /\ UNCHANGED << hcChunk, hcStream, hcOp, hcIter, hcYield >>
    /\ UNCHANGED notChunk

ChunkIONext == HcWrite \/ HcEdit \/ HcTruncate \/ HcRead

SpecChunkIO == ChunkIOInit /\ [][ChunkIONext]_vars

\* C23: for every chunk (any sort tag, any hash types, any entries) write
\* succeeds and emits exactly 64 + 64 * count bytes, and read on those bytes
\* returns a chunk equal to the original in entries, order, sort tag and hash
\* types.
C23_WriteReadRoundTrip ==
    hcOp = "write" =>
        /\ Len(hcStream) = 64 + 64 * Len(hcChunk[1].data)
        /\ hcRead # None => hcRead[1] = Ok(hcChunk[1])

\* A chunk of two entries tagged Unknown, with different hash types, was
\* written and read back
C23_Witness ==
    /\ hcOp = "write"
    /\ hcRead # None
    /\ hcRead[1].ok
    /\ hcChunk[1].sort = "Unknown"
    /\ hcChunk[1].name_hash = "Blake3"
    /\ hcChunk[1].data_hash = "Sha256"
    /\ Len(hcChunk[1].data) = 2
    /\ Len(hcStream) = 192

\* What the bytes of a stream say, read off the documented layout
HcMagicWrong(s) ==
    Len(s) >= 64 /\ (SubSeq(s, 1, 3) # << 104, 83, 98 >> \/ s[4] # 2)

HcFingerprintUnknown(s) ==
    /\ Len(s) >= 64
    /\ \/ from_fingerprint(SubSeq(s, 17, 24)) = None
       \/ from_fingerprint(SubSeq(s, 25, 32)) = None

HcCountTooBig(s) == Len(s) >= 64 /\ \E i \in 13..16 : s[i] # 0

HcHeaderCount(s) == s[9] + 256 * s[10] + 65536 * s[11] + 16777216 * s[12]

HcEndsEarly(s) ==
    \/ Len(s) < 64
    \/ ~HcCountTooBig(s) /\ Len(s) - 64 < 64 * HcHeaderCount(s)

\* C24: read returns an error and no chunk when the magic prefix or the type
\* byte is wrong (InvalidData), when a hash fingerprint is unknown
\* (Unsupported), when the count exceeds 2^32 - 1 (Unsupported) or when the
\* stream ends before count entries were read; a chunk it returns holds
\* exactly the header's count of entries.  The kind named is the one of the
\* first check that fails: magic, fingerprints, count.
C24_ReadRejectsBadStreams ==
    hcRead # None =>
        LET r == hcRead[1]
            s == hcStream
        IN  /\ (HcMagicWrong(s) \/ HcFingerprintUnknown(s) \/ HcCountTooBig(s) \/ HcEndsEarly(s))
                   => ~r.ok
            /\ HcMagicWrong(s) => r = Err("InvalidData")
            /\ (~HcMagicWrong(s) /\ HcFingerprintUnknown(s)) => r = Err("Unsupported")
            /\ (~HcMagicWrong(s) /\ ~HcFingerprintUnknown(s) /\ HcCountTooBig(s))
                   => r = Err("Unsupported")
            /\ r.ok => Len(r.value.data) = HcHeaderCount(s)

\* read refused a stream whose header counts more than 2^32 - 1 entries
C24_Witness ==
    /\ hcRead = Some(Err("Unsupported"))
    /\ HcCountTooBig(hcStream)
    /\ ~HcFingerprintUnknown(hcStream)
    /\ Len(hcStream) = 192

\* --------------------------------------------------------------------------
\* HashesIterChunk: the streaming reader.  An iterator is
\* [header, reader, count], reader being what the stream still holds.
\* --------------------------------------------------------------------------

\* HashesIterChunk::new with with_header(.., Some(true)): the header is read
\* once; usize::try_from(header.size) succeeds on a 64-bit build
HashesIterChunk_new(reader) ==
    LET header == HashesHeader_read(reader)
    IN  IF ~header.ok THEN header
        ELSE Ok([header |-> header.value, reader |-> SubSeq(reader, 65, Len(reader)), count |-> 0])

\* header.size as usize
HiSize(self) == from_le_bytes(SubSeq(self.header.size, 1, 4))

\* Iterator::next: [item, self]; item is None, Some(Ok(entry)) or
\* Some(Err(kind)).  A failed read_exact leaves nothing that is read again.
HashesIterChunk_next(self) ==
    IF self.count = HiSize(self)
    THEN [item |-> None, self |-> self]
    ELSE IF Len(self.reader) >= 64
         THEN [item |-> Some(Ok(EntryAt(self.reader, 1))),
               self |-> [self EXCEPT !.count = self.count + 1,
                                     !.reader = SubSeq(self.reader, 65, Len(self.reader))]]
         ELSE [item |-> Some(Err("UnexpectedEof")),
               self |-> [self EXCEPT !.count = HiSize(self), !.reader = <<>>]]

\* Iterator::size_hint
HashesIterChunk_size_hint(self) == << HiSize(self), Some(HiSize(self)) >>

\* Where the stream of a written chunk may end: after the header or later
HiCuts(size) == { n \in {64, 65, size - 64, size - 1, size} : 64 <= n /\ n <= size }

\* A stream that holds a written chunk, whole or cut off in its body
IterChunkInit ==
    /\ RunnerIdle
    /\ PmIdle
    /\ LsIdle
    /\ ViIdle
    /\ BgIdle
    /\ DfIdle
    /\ HaIdle
    /\ ApIdle
    /\ CrIdle
    /\ MhIdle
    /\ FsIdle
    /\ ZfIdle
    /\ MsIdle
    /\ hcChunk \in { Some(c) : c \in HcChunks }
    /\ \E n \in HiCuts(Len(HashesChunk_write(hcChunk[1]).value)) :
        /\ hcStream = SubSeq(HashesChunk_write(hcChunk[1]).value, 1, n)
        /\ hcOp = IF n = Len(HashesChunk_write(hcChunk[1]).value) THEN "write" ELSE "truncate"
    /\ hcRead = None
    /\ hcIter = None
    /\ hcYield = <<>>

\* let iter = HashesIterChunk::new(stream)?
HiNew ==
    /\ hcIter = None
    /\ LET r == HashesIterChunk_new(hcStream)
       IN  /\ r.ok
           /\ hcIter' = Some(r.value)
    /\ UNCHANGED << hcChunk, hcStream, hcRead, hcOp, hcYield >>
    /\ UNCHANGED notChunk

\* iter.next(), called up to twice after the iterator has ended
HiNext ==
    /\ hcIter # None
    /\ Len(hcYield) < HiSize(hcIter[1]) + 2
    /\ LET r == HashesIterChunk_next(hcIter[1])
       IN  /\ hcIter' = Some(r.self)
           /\ hcYield' = Append(hcYield, r.item)
    /\ UNCHANGED << hcChunk, hcStream, hcRead, hcOp >>
    /\ UNCHANGED notChunk

IterChunkNext == HiNew \/ HiNext

SpecIterChunk == IterChunkInit /\ [][IterChunkNext]_vars

\* The number of items next() will still return before its first None
RECURSIVE HiRemaining(_)
HiRemaining(self) ==
    LET r == HashesIterChunk_next(self)
    IN  IF r.item = None THEN 0 ELSE 1 + HiRemaining(r.self)

\* The entries among the items yielded so far
HiEntries == [i \in { j \in 1..Len(hcYield) : hcYield[j] # None /\ hcYield[j][1].ok } |->
                 hcYield[i][1].value]

\* C25: HashesIterChunk yields the header's count entries one by one in
\* stream order, the entries HashesChunk::read returns; its size hint equals
\* the number of items it will still yield at every point of the iteration;
\* after the first read error it yields that error once and then only None.
\* The size hint is looked at over streams that hold every entry only.
C25_IterYieldsExactly ==
    hcIter # None =>
        /\ \A i \in 1..Len(hcYield) :
              (hcYield[i] # None /\ hcYield[i][1].ok) =>
                  /\ \A j \in 1..(i - 1) : hcYield[j] # None /\ hcYield[j][1].ok
                  /\ hcYield[i][1].value = hcChunk[1].data[i]
        /\ (hcOp = "write" /\ hcYield # <<>> /\ hcYield[Len(hcYield)] = None) =>
              /\ HashesChunk_read(hcStream).ok
              /\ HiEntries = HashesChunk_read(hcStream).value.data
        /\ hcOp = "write" =>
              HashesIterChunk_size_hint(hcIter[1]) =
                  << HiRemaining(hcIter[1]), Some(HiRemaining(hcIter[1])) >>
        /\ \A i \in 1..Len(hcYield) :
              (hcYield[i] # None /\ ~hcYield[i][1].ok) =>
                  \A j \in (i + 1)..Len(hcYield) : hcYield[j] = None

\* ==========================================================================
\* Part 8: AveragePerTick (utils/mod.rs)
\*
\* A u64 is kept as 4 limbs of 16 bits, a u128 as 8 limbs, lowest limb
\* first, so that sums wrap where the code's sums wrap.
\* ==========================================================================

\* Four limbs of 16 bits make a u64 (size_of::<u64>() is 8 bytes), eight a u128
LimbBase == Pow2(16)

U64Limbs == DataChunkSize \div 2

U128Limbs == 2 * U64Limbs

\* The number n < 65536 as a value of w limbs
Limbs(n, w) == [i \in 1..w |-> IF i = 1 THEN n ELSE 0]

U64(n) == Limbs(n, U64Limbs)

U64_MAX == [i \in 1..U64Limbs |-> LimbBase - 1]

\* value as u128 / value as u64: zero-extended or cut to w limbs
AsLimbs(value, w) == [i \in 1..w |-> IF i <= Len(value) THEN value[i] ELSE 0]

\* a + b on values of equal width, wrapping at that width
RECURSIVE LimbAdd(_, _, _)
LimbAdd(a, b, carry) ==
    IF a = <<>> THEN <<>>
    ELSE << (a[1] + b[1] + carry) % LimbBase >>
             \o LimbAdd(Tail(a), Tail(b), (a[1] + b[1] + carry) \div LimbBase)

wrapping_add(a, b) == LimbAdd(a, b, 0)

\* a / d for a small divisor d >= 1: long division from the highest limb
RECURSIVE LimbDiv(_, _, _)
LimbDiv(a, d, i) ==
    IF i = 0 THEN [quot |-> <<>>, rem |-> 0]
    ELSE LET rest == LimbDiv(a, d, i - 1)
             k == Len(a) + 1 - i
             v == rest.rem * LimbBase + a[k]
         IN  [quot |-> << v \div d >> \o rest.quot, rem |-> v % d]

div(a, d) == LimbDiv(a, d, Len(a)).quot

\* slice.iter().fold(0, |acc, v| acc + *v as u128)
RECURSIVE fold_sum(_)
fold_sum(slice) ==
    IF slice = <<>> THEN Limbs(0, U128Limbs)
    ELSE wrapping_add(AsLimbs(Head(slice), U128Limbs), fold_sum(Tail(slice)))

Min(a, b) == IF a <= b THEN a ELSE b

\* AveragePerTick::get_avg
get_avg(lock) ==
    LET slice == SubSeq(lock.array, 1, Min(Len(lock.array), lock.index))
    IN  IF slice = <<>> THEN U64(0)
        ELSE AsLimbs(div(fold_sum(slice), Len(slice)), U64Limbs)

\* sample_now with the index started again at 0 once the ring is full
sample_now_FromZero(lock, collected) ==
    IF lock.array = <<>> THEN lock
    ELSE LET size == Len(lock.array)
             size2 == size * 2 - 1
             idx == lock.index
         IN  [index |-> IF idx >= size2 THEN 0 ELSE idx + 1,
              array |-> [lock.array EXCEPT ![(idx % size) + 1] = collected]]

\* AveragePerTick::sample_now under the write lock: the new MovingAvg
sample_now(lock, collected) ==
    IF lock.array = <<>> THEN lock
    ELSE LET size == Len(lock.array)
             size2 == size * 2 - 1
             idx == lock.index
         IN  [index |-> IF idx >= size2 THEN size ELSE idx + 1,
              array |-> [lock.array EXCEPT ![(idx % size) + 1] = collected]]

\* The largest window
ApMaxWindow == 2

\* sample_now calls on one meter
ApMaxSamples == 5

\* What append is called with, each value at most once between two samples
ApValues == { U64(1), U64_MAX }

\* AveragePerTick::new(window)
AverageInit ==
    /\ RunnerIdle
    /\ PmIdle
    /\ LsIdle
    /\ ViIdle
    /\ BgIdle
    /\ DfIdle
    /\ HaIdle
    /\ HcIdle
    /\ CrIdle
    /\ MhIdle
    /\ FsIdle
    /\ ZfIdle
    /\ MsIdle
    /\ current = U64(0)
    /\ \E window \in 1..ApMaxWindow :
        ticks = [index |-> 0, array |-> [i \in 1..window |-> U64(0)]]
    /\ apCall = [pc |-> "idle", collected |-> <<>>]
    /\ apHist = [pending |-> Limbs(0, U128Limbs), taken |-> <<>>, samples |-> <<>>,
                 calls |-> 0, appended |-> {}]

\* AveragePerTick::append(value): current.fetch_add(value)
ApAppend ==
    /\ \E value \in ApValues \ apHist.appended :
        /\ current' = wrapping_add(current, value)
        /\ apHist' = [apHist EXCEPT
                        !.pending = wrapping_add(@, AsLimbs(value, U128Limbs)),
                        !.appended = @ \cup {value}]
    /\ UNCHANGED << ticks, apCall >>
    /\ UNCHANGED notAverage

\* sample_now, first half: collected = current.swap(0)
ApSwap ==
    /\ apCall.pc = "idle"
    /\ apHist.calls < ApMaxSamples
    /\ apCall' = [pc |-> "swapped", collected |-> current]
    /\ current' = U64(0)
    /\ apHist' = [apHist EXCEPT !.pending = Limbs(0, U128Limbs), !.taken = apHist.pending,
                                !.appended = {}]
    /\ UNCHANGED ticks
    /\ UNCHANGED notAverage

\* sample_now, second half: the sample is stored under the write lock.  The
\* history keeps the exact sums of the last window samples.
ApStore ==
    /\ apCall.pc = "swapped"
    /\ ticks' = sample_now(ticks, apCall.collected)
    /\ apCall' = [pc |-> "idle", collected |-> <<>>]
    /\ apHist' = [apHist EXCEPT
                    !.samples = LET all == Append(@, apHist.taken)
                                IN  SubSeq(all, Max(1, Len(all) - Len(ticks.array) + 1), Len(all)),
                    !.taken = <<>>,
                    !.calls = @ + 1]
    /\ UNCHANGED current
    /\ UNCHANGED notAverage

AverageNext == ApAppend \/ ApSwap \/ ApStore

SpecAverage == AverageInit /\ [][AverageNext]_vars

\* The sum of a sequence of exact (u128 wide) values
RECURSIVE ApTotal(_)
ApTotal(samples) ==
    IF samples = <<>> THEN Limbs(0, U128Limbs)
    ELSE wrapping_add(Head(samples), ApTotal(Tail(samples)))

\* The integer mean, rounded down, of the samples
ApMean(samples) ==
    IF samples = <<>> THEN Limbs(0, U128Limbs)
    ELSE div(ApTotal(samples), Len(samples))

\* The samples as the u64 counter delivers them: modulo 2^64
ApWrapped(samples) == [i \in 1..Len(samples) |-> AsLimbs(AsLimbs(samples[i], U64Limbs), U128Limbs)]

\* C27 as written: after k calls of sample_now, get_avg is the integer mean
\* of the most recent min(k, w) samples, each sample being the sum of the
\* values appended since the previous sample, and 0 when k = 0.
C27_AvgIsMeanOfSums ==
    /\ Len(apHist.samples) = Min(apHist.calls, Len(ticks.array))
    /\ AsLimbs(get_avg(ticks), U128Limbs) = ApMean(apHist.samples)

\* C27 amended: after k calls of sample_now, get_avg is the integer mean
\* (rounded down) of the most recent min(k, w) samples and 0 when k = 0,
\* where each sample is the sum modulo 2^64 of the values appended since the
\* previous sample; appending alone never changes get_avg.
C27_AvgIsMeanOfWrappedSums ==
    /\ [](/\ Len(apHist.samples) = Min(apHist.calls, Len(ticks.array))
          /\ AsLimbs(get_avg(ticks), U128Limbs) = ApMean(ApWrapped(apHist.samples))
          /\ apHist.calls = 0 => get_avg(ticks) = U64(0))
    /\ [][ApAppend => get_avg(ticks') = get_avg(ticks)]_vars

\* The ring of a window of two has wrapped around twice and holds a sample
\* whose sum passed 2^64
C27_Witness ==
    /\ Len(ticks.array) = 2
    /\ apHist.calls = 5
    /\ apCall.pc = "idle"
    /\ apHist.samples = << AsLimbs(U64(1), U128Limbs),
                            wrapping_add(AsLimbs(U64_MAX, U128Limbs), AsLimbs(U64(1), U128Limbs)) >>
    /\ get_avg(ticks) = U64(0)

\* ==========================================================================
\* Part 9: with_counted_read (utils/io.rs)
\* ==========================================================================

\* a + b passes u64::MAX
overflows(a, b) ==
    AsLimbs(wrapping_add(a, b), U128Limbs) # wrapping_add(AsLimbs(a, U128Limbs), AsLimbs(b, U128Limbs))

\* StreamCountWrapper::read for each read of the callback in turn, with every
\* failed read registered, Interrupted too.  The state is
\* [count, flag, panic]: *self.1, self.2 and whether `+=` panicked.
RECURSIVE wrapper_reads_AnyError(_, _, _)
wrapper_reads_AnyError(reads, st, checks) ==
    IF reads = <<>> \/ st.panic THEN st
    ELSE LET res == Head(reads)
         IN  IF res.ok
             THEN IF checks /\ overflows(st.count, U64(res.value))
                  THEN [st EXCEPT !.panic = TRUE]
                  ELSE wrapper_reads_AnyError(Tail(reads),
                           [st EXCEPT !.count = wrapping_add(st.count, U64(res.value))], checks)
             ELSE wrapper_reads_AnyError(Tail(reads), [st EXCEPT !.flag = TRUE], checks)

\* StreamCountWrapper::read for each read of the callback in turn.  With
\* overflow checks `*self.1 += *count as u64` panics where it would pass
\* u64::MAX, without them it wraps.
RECURSIVE wrapper_reads(_, _, _)
wrapper_reads(reads, st, checks) ==
    IF reads = <<>> \/ st.panic THEN st
    ELSE LET res == Head(reads)
         IN  IF res.ok
             THEN IF checks /\ overflows(st.count, U64(res.value))
                  THEN [st EXCEPT !.panic = TRUE]
                  ELSE wrapper_reads(Tail(reads),
                           [st EXCEPT !.count = wrapping_add(st.count, U64(res.value))], checks)
             ELSE IF res.kind # "Interrupted"
                  THEN wrapper_reads(Tail(reads), [st EXCEPT !.flag = TRUE], checks)
                  ELSE wrapper_reads(Tail(reads), st, checks)

\* with_counted_read(read, count, func): func makes the reads and returns ret
with_counted_read(count, reads, ret, checks) ==
    LET wrapper == wrapper_reads(reads, [count |-> count, flag |-> FALSE, panic |-> FALSE], checks)
    IN  IF wrapper.panic
        THEN [panic |-> TRUE, result |-> None, count |-> wrapper.count]
        ELSE IF ~ret.ok
        THEN [panic |-> FALSE, result |-> Some(ret), count |-> wrapper.count]
        ELSE IF wrapper.flag
        THEN [panic |-> FALSE, result |-> Some(Err("Other")), count |-> wrapper.count]
        ELSE [panic |-> FALSE, result |-> Some(ret), count |-> wrapper.count]

\* Reads made by one callback
CrMaxReads == 2

\* What a read of the underlying stream returns
CrReads == { Ok(0), Ok(1), Ok(2), Err("Interrupted"), Err("WouldBlock"), Err("UnexpectedEof") }

\* What the callback returns: a value, an error of its own, or the error of
\* a read it gave up on
CrRets == { Ok("value"), Err("InvalidData"), Err("UnexpectedEof") }

\* The counter the caller passes in: fresh, a position, or one byte short of
\* u64::MAX
CrCounts == { U64(0), U64(64), [U64_MAX EXCEPT ![1] = LimbBase - 2] }

CountedReadInit ==
    /\ RunnerIdle
    /\ PmIdle
    /\ LsIdle
    /\ ViIdle
    /\ BgIdle
    /\ DfIdle
    /\ HaIdle
    /\ HcIdle
    /\ ApIdle
    /\ MhIdle
    /\ FsIdle
    /\ ZfIdle
    /\ MsIdle
    /\ crCall \in [count : CrCounts, reads : SeqsUpTo(CrReads, CrMaxReads), ret : CrRets,
                   checks : BOOLEAN]
    /\ crRes = None

\* with_counted_read(&mut stream, &mut count, func)
CrCallFunc ==
    /\ crRes = None
    /\ crRes' = Some(with_counted_read(crCall.count, crCall.reads, crCall.ret, crCall.checks))
    /\ UNCHANGED crCall
    /\ UNCHANGED notCountedRead

CountedReadNext == CrCallFunc

SpecCountedRead == CountedReadInit /\ [][CountedReadNext]_vars

\* The bytes the reads of the callback returned, as an exact number
RECURSIVE CrBytes(_)
CrBytes(reads) ==
    IF reads = <<>> THEN 0
    ELSE (IF Head(reads).ok THEN Head(reads).value ELSE 0) + CrBytes(Tail(reads))

\* A read failed with an error other than Interrupted
CrIgnoredError(reads) ==
    \E i \in 1..Len(reads) : ~reads[i].ok /\ reads[i].kind # "Interrupted"

\* The exact sum of the counter and the bytes read
CrExactCount == wrapping_add(AsLimbs(crCall.count, U128Limbs), Limbs(CrBytes(crCall.reads), U128Limbs))

\* What the call returns, given that it returns
CrReturnContract ==
    LET r == crRes[1]
    IN  /\ r.result # None
        /\ (CrIgnoredError(crCall.reads) /\ crCall.ret.ok) => ~r.result[1].ok
        /\ (~CrIgnoredError(crCall.reads) /\ crCall.ret.ok) => r.result[1] = crCall.ret
        /\ ~crCall.ret.ok => r.result[1] = crCall.ret

\* C29 as written: the call adds to the caller's counter exactly the number of
\* bytes the callback read; a read that failed with an error other than
\* Interrupted turns an Ok of the callback into an error, Interrupted alone
\* does not, and an Err of the callback is returned unchanged.
C29_CountsExactlyAndEscalates ==
    crRes # None =>
        /\ ~crRes[1].panic
        /\ AsLimbs(crRes[1].count, U128Limbs) = CrExactCount
        /\ CrReturnContract

\* C29 amended: as long as the counter does not pass u64::MAX the call adds
\* to it exactly the number of bytes the callback read, and returns as C29
\* says; where the counter would pass u64::MAX, a build with overflow checks
\* panics in the read and a build without them counts modulo 2^64 and returns
\* as C29 says.  A panic happens in no other case.
C29_CountsModuloAndEscalates ==
    crRes # None =>
        LET passes == AsLimbs(AsLimbs(CrExactCount, U64Limbs), U128Limbs) # CrExactCount
        IN  /\ crRes[1].panic <=> (passes /\ crCall.checks)
            /\ ~crRes[1].panic =>
                  /\ crRes[1].count = AsLimbs(CrExactCount, U64Limbs)
                  /\ CrReturnContract

\* The callback read two bytes, ignored a read that failed, returned Ok, and
\* the call returned an error with the two bytes counted
C29_Witness ==
    /\ crRes # None
    /\ crCall.count = U64(64)
    /\ crCall.reads = << Ok(2), Err("WouldBlock") >>
    /\ crCall.ret = Ok("value")
    /\ crRes[1] = [panic |-> FALSE, result |-> Some(Err("Other")), count |-> U64(66)]

\* ==========================================================================
\* Part 10: MainHeader::read and the codec registry (file/sum_file.rs,
\* file/codecs.rs)
\* ==========================================================================

\* b"HsUm"
MAIN_HEADER_MAGIC == << 72, 115, 85, 109 >>

\* The registry: (version, codec) entries
CODECS == << [version |-> << 0, 0, 1 >>, codec |-> "Codec0_0_1"] >>

\* Ord of [u8; 3]: lexicographic
ArrayLess(a, b) ==
    \E i \in 1..Len(a) : a[i] < b[i] /\ \A j \in 1..(i - 1) : a[j] = b[j]

\* get_latest_codec: CODECS.iter().max_by_key(|v| v.0), the last of the
\* greatest entries
get_latest_codec ==
    LET i == CHOOSE k \in 1..Len(CODECS) :
                 /\ \A j \in 1..Len(CODECS) : ~ArrayLess(CODECS[k].version, CODECS[j].version)
                 /\ \A j \in (k + 1)..Len(CODECS) : CODECS[j].version # CODECS[k].version
    IN  CODECS[i]

\* get_codec that looks at major and minor only
get_codec_MajorMinor(version) ==
    LET found == { k \in 1..Len(CODECS) : SubSeq(CODECS[k].version, 1, 2) = SubSeq(version, 1, 2) }
    IN  IF found = {} THEN None
        ELSE Some(CODECS[CHOOSE k \in found : \A j \in found : k <= j].codec)

\* get_codec: the first entry of that very version
get_codec(version) ==
    LET found == { k \in 1..Len(CODECS) : CODECS[k].version = version }
    IN  IF found = {} THEN None
        ELSE Some(CODECS[CHOOSE k \in found : \A j \in found : k <= j].codec)

\* Codec0_0_1::decode_header_fields
decode_header_fields(codec, array) == Ok("unit")

\* Codec0_0_1::decode_additional_header: the reads it makes on the stream and
\* what it returns
decode_additional_header(codec, read) == [reads |-> <<>>, ret |-> Ok("unit")]

\* io::Error::new(kind, message)
ErrorNew(kind, message) == [ok |-> FALSE, kind |-> kind, message |-> message]

\* MainHeader::read.  count starts at 0, so that no build overflows in
\* with_counted_read or in 64 + count.
MainHeader_read(stream) ==
    IF Len(stream) < 64 THEN Err("UnexpectedEof")
    ELSE
    LET main_header == SubSeq(stream, 1, 64)
        version == SubSeq(main_header, 5, 7)
        codec == get_codec(version)
    IN  IF SubSeq(main_header, 1, 4) # MAIN_HEADER_MAGIC
        THEN ErrorNew("InvalidData", [text |-> "Invalid magic bytes"])
        ELSE IF codec = None
        THEN ErrorNew("InvalidData",
                      [text |-> "Unknown fingerprint file version, latest supported version is",
                       version |-> version, latest |-> get_latest_codec.version])
        ELSE
        LET fields == decode_header_fields(codec[1], SubSeq(main_header, 8, 64))
            more == decode_additional_header(codec[1], SubSeq(stream, 65, Len(stream)))
            counted == with_counted_read(U64(0), more.reads, more.ret, FALSE)
        IN  IF ~fields.ok THEN fields
            ELSE IF ~counted.result[1].ok THEN counted.result[1]
            ELSE Ok([header |-> [codec |-> codec[1], flags |-> 0],
                     consumed |-> wrapping_add(U64(64), counted.count)])

\* The largest version number in a stream
MhMaxVersion == 2

\* The first four bytes of a stream: the file magic, the magic of a
\* MainHeader block, a damaged magic, zeros
MhMagics == { MAIN_HEADER_MAGIC, magic(1), << 72, 115, 85, 0 >>, zero(4) }

\* Streams: magic, version triple, a payload of 57 bytes and what follows,
\* whole or cut off
MhStreams ==
    { SubSeq(m \o v \o set_slice(zero(57), 0, p) \o << 104, 83, 98, 2, 0, 0 >>, 1, n) :
        m \in MhMagics, v \in [1..3 -> 0..MhMaxVersion], p \in {0, 1}, n \in {4, 63, 64, 70} }

MainHeaderInit ==
    /\ RunnerIdle
    /\ PmIdle
    /\ LsIdle
    /\ ViIdle
    /\ BgIdle
    /\ DfIdle
    /\ HaIdle
    /\ HcIdle
    /\ ApIdle
    /\ CrIdle
    /\ FsIdle
    /\ ZfIdle
    /\ MsIdle
    /\ mhStream \in MhStreams
    /\ mhRes = None

\* MainHeader::read(&mut stream)
MhRead ==
    /\ mhRes = None
    /\ mhRes' = Some(MainHeader_read(mhStream))
    /\ UNCHANGED mhStream
    /\ UNCHANGED notMainHeader

MainHeaderNext == MhRead

SpecMainHeader == MainHeaderInit /\ [][MainHeaderNext]_vars

\* The versions of the registry and the greatest of them
MhVersions == { CODECS[k].version : k \in 1..Len(CODECS) }

MhLatest == CHOOSE v \in MhVersions : \A u \in MhVersions : u = v \/ ArrayLess(u, v)

\* C28: MainHeader::read fails when the first 4 bytes are not "HsUm" and when
\* the version triple at bytes 4..7 is not a version of the registry, the
\* message then naming the latest supported version, the lexicographic
\* maximum of the registry; on success it returns the header and the bytes
\* consumed, 64 plus what the additional-header decoder of the codec read.
C28_MainHeaderRead ==
    (mhRes # None /\ Len(mhStream) >= 64) =>
        LET r == mhRes[1]
            version == SubSeq(mhStream, 5, 7)
        IN  /\ SubSeq(mhStream, 1, 4) # << 72, 115, 85, 109 >> => ~r.ok
            /\ (SubSeq(mhStream, 1, 4) = << 72, 115, 85, 109 >> /\ version \notin MhVersions) =>
                  /\ ~r.ok
                  /\ r.message.latest = MhLatest
            /\ (SubSeq(mhStream, 1, 4) = << 72, 115, 85, 109 >> /\ version \in MhVersions) =>
                  /\ r.ok
                  /\ \E k \in 1..Len(CODECS) :
                        /\ CODECS[k].version = version
                        /\ r.value.header.codec = CODECS[k].codec
                        /\ r.value.consumed =
                              U64(64 + CrBytes(decode_additional_header(CODECS[k].codec, <<>>).reads))

\* A stream of version 0.0.2 was refused with a message naming 0.0.1
C28_Witness ==
    /\ mhRes # None
    /\ Len(mhStream) = 70
    /\ SubSeq(mhStream, 1, 7) = << 72, 115, 85, 109, 0, 0, 2 >>
    /\ ~mhRes[1].ok
    /\ mhRes[1].message.latest = << 0, 0, 1 >>

\* ---------------------------------------------------------------------
\* Part 11: DepthFileScanner (src/src/hasher/file_iter.rs)
\*
\* A path is the sequence of names below the root, the root being << >>.
\* A node of the tree is a regular file ("file"), a directory read_dir
\* opens ("dir"), a directory read_dir fails on ("locked"), an entry whose
\* file_type() fails ("badtype"), or an item the listing of its parent
\* yields as Err ("error").
\* ---------------------------------------------------------------------

FsNames == << "a", "b" >>

FsMaxNodes == 3

\* Calls of next_file made after the last entry
FsMaxEndCalls == 2

FsLeafKinds == { "file", "dir", "locked", "badtype", "error" }

FsRootKinds == { "dir", "locked" }

FsFree(tree) ==
    { Append(p, FsNames[i]) :
        p \in { d \in DOMAIN tree : tree[d] = "dir" },
        i \in 1..Len(FsNames) } \ DOMAIN tree

FsAdd(tree, path, kind) ==
    [ p \in DOMAIN tree \cup { path } |-> IF p = path THEN kind ELSE tree[p] ]

RECURSIVE FsTrees(_)
FsTrees(n) ==
    IF n = 0
    THEN { [ p \in { << >> } |-> k ] : k \in FsRootKinds }
    ELSE LET smaller == FsTrees(n - 1)
         IN  smaller \cup
             UNION { { FsAdd(t, p, k) : p \in FsFree(t), k \in FsLeafKinds } :
                     t \in smaller }

NameIndex(name) == CHOOSE i \in 1..Len(FsNames) : FsNames[i] = name

file_name(entry) == entry[Len(entry)]

\* DirEntry::file_type
file_type(tree, entry) ==
    IF tree[entry] = "badtype" THEN Err("Other") ELSE Ok(tree[entry])

\* FileType::is_dir
FileType_is_dir(ft) == ft \in { "dir", "locked" }

\* The items of the listing of a directory, in the order of the OS
OsListing(tree, order, path) ==
    LET present == { i \in 1..Len(FsNames) : Append(path, FsNames[i]) \in DOMAIN tree }
        item(i) == LET child == Append(path, FsNames[i])
                   IN  IF tree[child] = "error" THEN Err("Other") ELSE Ok(child)
        RECURSIVE list(_)
        list(todo) ==
            IF todo = {} THEN << >>
            ELSE LET i == IF order = "Ascending"
                          THEN CHOOSE x \in todo : \A y \in todo : x <= y
                          ELSE CHOOSE x \in todo : \A y \in todo : x >= y
                 IN  << item(i) >> \o list(todo \ { i })
    IN  list(present)

\* std::fs::read_dir
read_dir(tree, order, path) ==
    IF tree[path] = "dir" THEN Ok(OsListing(tree, order, path))
    ELSE Err("PermissionDenied")

\* StackVariant::compare_entries: "Less", "Equal" or "Greater"
compare_entries(a, b) ==
    IF a.ok /\ b.ok
    THEN IF NameIndex(file_name(a.value)) < NameIndex(file_name(b.value)) THEN "Less"
         ELSE IF a.value = b.value THEN "Equal" ELSE "Greater"
    ELSE IF a.ok THEN "Less"
    ELSE IF b.ok THEN "Greater"
    ELSE "Equal"

Ordering_reverse(o) ==
    IF o = "Less" THEN "Greater" ELSE IF o = "Greater" THEN "Less" ELSE o

SortCompare(sortType, a, b) ==
    IF sortType = "Ascending" THEN Ordering_reverse(compare_entries(a, b))
    ELSE compare_entries(a, b)

RECURSIVE files_insert(_, _, _)
files_insert(sortType, e, sorted) ==
    IF sorted = << >> THEN << e >>
    ELSE IF SortCompare(sortType, e, Head(sorted)) = "Greater"
         THEN << Head(sorted) >> \o files_insert(sortType, e, Tail(sorted))
         ELSE << e >> \o sorted

RECURSIVE sort_unstable_by(_, _)
sort_unstable_by(sortType, files) ==
    IF files = << >> THEN << >>
    ELSE files_insert(sortType, Head(files), sort_unstable_by(sortType, Tail(files)))

DEFAUL_SORT == "Ascending"

StackVariant_new(keep_dir_open) ==
    IF keep_dir_open
    THEN [ variant |-> "Fresh", stack |-> << >>, sort |-> "None" ]
    ELSE [ variant |-> "Cached", stack |-> << >>, sort |-> DEFAUL_SORT ]

VecPop(v) == IF v = << >> THEN v ELSE SubSeq(v, 1, Len(v) - 1)

StackVariant_pop(self) == [ self EXCEPT !.stack = VecPop(@) ]

StackVariant_push(self, iter) ==
    IF self.variant = "Fresh"
    THEN [ self EXCEPT !.stack = Append(@, iter) ]
    ELSE [ self EXCEPT !.stack =
             Append(@, IF self.sort = "None" THEN iter
                       ELSE sort_unstable_by(self.sort, iter)) ]

StackVariant_clear(self, keep_dir_open) ==
    IF self.variant = "Fresh"
    THEN IF keep_dir_open THEN [ self EXCEPT !.stack = << >> ]
         ELSE StackVariant_new(FALSE)
    ELSE IF ~keep_dir_open THEN [ self EXCEPT !.stack = << >> ]
         ELSE StackVariant_new(TRUE)

\* TempIter::next taking the first item of a cached Vec too
TempIter_next_Head(self) ==
    LET top  == Len(self.stack)
        iter == self.stack[top]
    IN  IF iter = << >> THEN [ item |-> None, stack |-> self ]
        ELSE [ item  |-> Some(Head(iter)),
               stack |-> [ self EXCEPT !.stack[top] = Tail(iter) ] ]

\* TempIter::next on the last iterator of the stack: the item and the stack
\* after it; a ReadDir yields its first item, a cached Vec pops its last
TempIter_next(self) ==
    LET top  == Len(self.stack)
        iter == self.stack[top]
    IN  IF iter = << >> THEN [ item |-> None, stack |-> self ]
        ELSE IF self.variant = "Fresh"
        THEN [ item  |-> Some(Head(iter)),
               stack |-> [ self EXCEPT !.stack[top] = Tail(iter) ] ]
        ELSE [ item  |-> Some(iter[Len(iter)]),
               stack |-> [ self EXCEPT !.stack[top] = VecPop(iter) ] ]

\* DepthFileScanner::from_dir
from_dir(tree, order, keep_dir_open) ==
    LET stack == StackVariant_new(keep_dir_open)
        iter  == read_dir(tree, order, << >>)
    IN  [ current |-> << >>,
          stack   |-> IF iter.ok THEN StackVariant_push(stack, iter.value) ELSE stack ]

\* DepthFileScanner::reset_from_dir
reset_from_dir(tree, order, self, keep_dir_open) ==
    LET stack == StackVariant_clear(self.stack, keep_dir_open)
        iter  == read_dir(tree, order, << >>)
    IN  [ current |-> << >>,
          stack   |-> IF iter.ok THEN StackVariant_push(stack, iter.value) ELSE stack ]

\* FileEntry::is_dir
FileEntry_is_dir(self) == self.dir_name # None

\* FileEntry::get_name
get_name(self) ==
    IF self.dir_name # None THEN self.dir_name[1] ELSE file_name(self.entry)

\* DepthFileScanner::next_file: the scanner after the call and the returned
\* Option<FileEntry>
RECURSIVE next_file(_, _, _)
next_file(tree, order, self) ==
    IF self.stack.stack = << >> THEN [ self |-> self, ret |-> None ]
    ELSE LET step == TempIter_next(self.stack)
             adv  == [ self EXCEPT !.stack = step.stack ]
         IN  IF step.item = None
             THEN next_file(tree, order,
                      [ current |-> VecPop(self.current),
                        stack   |-> StackVariant_pop(self.stack) ])
             ELSE LET entry == step.item[1]
                  IN  IF ~entry.ok THEN next_file(tree, order, adv)
                      ELSE LET ft == file_type(tree, entry.value)
                           IN  IF ~ft.ok THEN next_file(tree, order, adv)
                               ELSE LET iter == read_dir(tree, order, entry.value)
                                    IN  IF FileType_is_dir(ft.value) /\ iter.ok
                                        THEN [ self |->
                                                 [ current |-> Append(adv.current, file_name(entry.value)),
                                                   stack   |-> StackVariant_push(adv.stack, iter.value) ],
                                               ret |-> Some([ before_name |-> adv.current,
                                                              dir_name    |-> Some(file_name(entry.value)),
                                                              file_type   |-> ft.value,
                                                              entry       |-> entry.value ]) ]
                                        ELSE [ self |-> adv,
                                               ret |-> Some([ before_name |-> adv.current,
                                                              dir_name    |-> None,
                                                              file_type   |-> ft.value,
                                                              entry       |-> entry.value ]) ]

ScannerInit ==
    /\ RunnerIdle
    /\ PmIdle
    /\ LsIdle
    /\ ViIdle
    /\ BgIdle
    /\ DfIdle
    /\ HaIdle
    /\ HcIdle
    /\ ApIdle
    /\ CrIdle
    /\ MhIdle
    /\ ZfIdle
    /\ MsIdle
    /\ fsTree \in FsTrees(FsMaxNodes)
    /\ fsOrder \in { "Ascending", "Descending" }
    /\ fsScanner = None
    /\ fsRet = << >>
    /\ fsSave = None

FsFromDir ==
    /\ fsScanner = None
    /\ \E keep_dir_open \in BOOLEAN :
         fsScanner' = Some(from_dir(fsTree, fsOrder, keep_dir_open))
    /\ UNCHANGED << fsTree, fsOrder, fsRet, fsSave >>
    /\ UNCHANGED notScanner

FsResetFromDir ==
    /\ fsScanner # None
    /\ fsSave = None
    /\ \E keep_dir_open \in BOOLEAN :
         fsScanner' = Some(reset_from_dir(fsTree, fsOrder, fsScanner[1], keep_dir_open))
    /\ fsRet' = << >>
    /\ UNCHANGED << fsTree, fsOrder, fsSave >>
    /\ UNCHANGED notScanner

FsNextFile ==
    /\ fsScanner # None
    /\ fsSave = None
    /\ Len(fsRet) < FsMaxNodes + FsMaxEndCalls
    /\ LET r == next_file(fsTree, fsOrder, fsScanner[1])
       IN  /\ fsScanner' = Some(r.self)
           /\ fsRet' = Append(fsRet, r.ret)
    /\ UNCHANGED << fsTree, fsOrder, fsSave >>
    /\ UNCHANGED notScanner

ScannerNext ==
    \/ FsFromDir
    \/ FsResetFromDir
    \/ FsNextFile

SpecScanner == ScannerInit /\ [][ScannerNext]_vars

\* The last call of next_file returned an entry; that entry
FsEmitted == fsRet # << >> /\ fsRet[Len(fsRet)] # None

FsEntry == fsRet[Len(fsRet)][1]

FsIsDirectory(path) == fsTree[path] \in { "dir", "locked" }

FsAncestors(path) == SubSeq(path, 1, Len(path) - 1)

\* C30: every entry next_file emits has dir_name present exactly if the
\* entry is a directory, so that is_dir is true exactly for directories,
\* and its before_name is the names of its ancestor directories below the
\* root, outermost first
C30_DirNameIffDirectory ==
    FsEmitted =>
        /\ (FsEntry.dir_name # None) <=> FsIsDirectory(FsEntry.entry)
        /\ FileEntry_is_dir(FsEntry) <=> FsIsDirectory(FsEntry.entry)
        /\ FsEntry.before_name = FsAncestors(FsEntry.entry)

\* ---------------------------------------------------------------------
\* Part 1, continued: further properties of the runner
\* ---------------------------------------------------------------------

C39_SendNeverFails ==
    \A f \in Files :
        /\ tx[f] => wpc[f] \in {"none", "queued", "recv", "update"}
        /\ rpc[f] \in {"lend", "lend_wait", "send"} => tx[f]

C39_Witness ==
    \E f \in Files :
        /\ rpc[f] = "done"
        /\ rres[f] = "eof"
        /\ rcnt[f] >= 2
        /\ Len(chan[f]) = rcnt[f]
        /\ wpc[f] = "queued"

\* The configurations of C31: no more reader threads than worker threads,
\* at least one permit, at least one buffer, every channel bound
LvMaxThreads == 2

LvMaxPermits == 2

LvMaxBuffers == 2

LvMaxChanBound == 2

LiveConfigs ==
    { c \in [ permits : 1..LvMaxPermits,
              buffer_chunk_size : { 2 * MinChunkSize },
              max_buffer_chunks : 1..LvMaxBuffers,
              max_buffer_chunks_per_file : 0..LvMaxChanBound,
              read_threads : 1..LvMaxThreads,
              processing_threads : 1..LvMaxThreads ] :
        c.read_threads <= c.processing_threads }

LiveInit ==
    /\ cfg \in LiveConfigs
    /\ RunnerStart
    /\ PmIdle
    /\ RestIdle

\* The threads keep running: while some thread of the pipeline can take a
\* step, one of them does.  Fair scheduling of each thread implies it.
SpecLive ==
    /\ LiveInit
    /\ [][Pipeline]_vars
    /\ WF_vars(Pipeline)

WorkerPanic_Releases(f) ==
    /\ wpc[f] \in {"update", "finish"}
    /\ wpc' = [wpc EXCEPT ![f] = "panicked"]
    /\ wbuf' = [wbuf EXCEPT ![f] = <<>>]
    /\ LET r == add_permit(permits)
       IN  /\ permits' = r.perm
           /\ sched' = IF r.notify THEN NotifiedSched(sched) ELSE sched
    /\ UNCHANGED << cfg, flag, data_chunks, iter_taken, reader_queue,
                    worker_queue, rpc, rbuf, rcnt, rres, tx, chan, hasher,
                    recycled, finished, errors, released, client, late >>
    /\ UNCHANGED notRunner

WorkerPanic(f) ==
    /\ wpc[f] \in {"update", "finish"}
    /\ wpc' = [wpc EXCEPT ![f] = "panicked"]
    /\ wbuf' = [wbuf EXCEPT ![f] = <<>>]
    /\ UNCHANGED << cfg, flag, permits, data_chunks, iter_taken, sched,
                    reader_queue, worker_queue, rpc, rbuf, rcnt, rres, tx, chan,
                    hasher, recycled, finished, errors, released, client, late >>
    /\ UNCHANGED notRunner

\* dout.send(chunk).unwrap() with the Receiver dropped: send returns Err and
\* the unwrap panics, which drops the chunk and the Sender
ReaderSendFails(f) ==
    /\ rpc[f] = "send"
    /\ wpc[f] = "panicked"
    /\ rpc' = [rpc EXCEPT ![f] = "panicked"]
    /\ rbuf' = [rbuf EXCEPT ![f] = <<>>]
    /\ tx' = [tx EXCEPT ![f] = FALSE]
    /\ UNCHANGED << cfg, flag, permits, data_chunks, iter_taken, sched,
                    reader_queue, worker_queue, rcnt, rres, chan, wpc, wbuf,
                    hasher, recycled, finished, errors, released, client, late >>
    /\ UNCHANGED notRunner

PanicInit ==
    /\ RunnerInit
    /\ PmIdle
    /\ RestIdle

PanicNext ==
    \/ Next
    \/ \E f \in Files : WorkerPanic(f)
    \/ \E f \in Files : ReaderSendFails(f)

SpecPanic == PanicInit /\ [][PanicNext]_vars

\* Files whose worker task ended in a panic
Leaked == { f \in Files : wpc[f] = "panicked" }

\* C32: a worker task that ends in a panic has not returned its permit and
\* nobody returns it later: from then on fewer than max_concurrent_files
\* permits can ever be available, the final wait of the scheduler does not
\* complete and neither wait_for_finish nor stop returns
C32_LeakedPermitBlocksDrain ==
    /\ \A f \in Leaked : released[f] = 0
    /\ permits.hi = 0
    /\ permits.lo >= 0
    /\ Leaked # {} =>
          /\ permits.lo + Cardinality(Leaked) <= ic.max_permits
          /\ sched.pc # "done"
          /\ client \notin {"wait_done", "stop_true", "stop_false"}

C32_Witness ==
    /\ Leaked # {}
    /\ sched.pc = "drain_wait"
    /\ client = "stop_join"
    /\ \A f \in Files : rpc[f] \in {"done", "panicked"} /\ wpc[f] \in {"done", "panicked"}
    /\ ~ENABLED PanicNext

\* ---------------------------------------------------------------------
\* Part 8, continued: append and sample_now called from several threads.
\* Here apCall is, per sampling thread, its running sample_now, and apHist
\* is [appended, stored, appends, calls]: the exact (u128 wide) sums of
\* the values appended and of the samples stored, and the calls made.
\* ---------------------------------------------------------------------

\* Threads that call sample_now, and the append calls made in all
ApNumThreads == 2

ApMaxAppends == 3

ApThreads == 1..ApNumThreads

\* AtomicU64::swap as a load followed by nothing: the counter keeps its value
swap_KeepsValue(cell, value) == [old |-> cell, new |-> cell]

\* AtomicU64::swap(value): the value read and the value left, in one step
swap(cell, value) == [old |-> cell, new |-> value]

AverageMtInit ==
    /\ RunnerIdle
    /\ PmIdle
    /\ LsIdle
    /\ ViIdle
    /\ BgIdle
    /\ DfIdle
    /\ HaIdle
    /\ HcIdle
    /\ CrIdle
    /\ MhIdle
    /\ FsIdle
    /\ ZfIdle
    /\ MsIdle
    /\ current = U64(0)
    /\ \E window \in 1..ApMaxWindow :
        ticks = [index |-> 0, array |-> [i \in 1..window |-> U64(0)]]
    /\ apCall = [t \in ApThreads |-> [pc |-> "idle", collected |-> <<>>]]
    /\ apHist = [appended |-> Limbs(0, U128Limbs), stored |-> Limbs(0, U128Limbs),
                 appends |-> 0, calls |-> 0]

\* AveragePerTick::append(value) on any thread
MtAppend ==
    /\ apHist.appends < ApMaxAppends
    /\ \E value \in ApValues :
        /\ current' = wrapping_add(current, value)
        /\ apHist' = [apHist EXCEPT
                        !.appended = wrapping_add(@, AsLimbs(value, U128Limbs)),
                        !.appends = @ + 1]
    /\ UNCHANGED << ticks, apCall >>
    /\ UNCHANGED notAverage

\* sample_now on thread t, first half: collected = current.swap(0)
MtSwap(t) ==
    /\ apCall[t].pc = "idle"
    /\ apHist.calls < ApMaxSamples
    /\ LET s == swap(current, U64(0))
       IN  /\ apCall' = [apCall EXCEPT ![t] = [pc |-> "swapped", collected |-> s.old]]
           /\ current' = s.new
    /\ apHist' = [apHist EXCEPT !.calls = @ + 1]
    /\ UNCHANGED ticks
    /\ UNCHANGED notAverage

\* sample_now on thread t, second half, under the write lock of ticks
MtStore(t) ==
    /\ apCall[t].pc = "swapped"
    /\ ticks' = sample_now(ticks, apCall[t].collected)
    /\ apCall' = [apCall EXCEPT ![t] = [pc |-> "idle", collected |-> <<>>]]
    /\ apHist' = [apHist EXCEPT
                    !.stored = wrapping_add(@, AsLimbs(apCall[t].collected, U128Limbs))]
    /\ UNCHANGED current
    /\ UNCHANGED notAverage

AverageMtNext ==
    \/ MtAppend
    \/ \E t \in ApThreads : MtSwap(t)
    \/ \E t \in ApThreads : MtStore(t)

SpecAverageMt == AverageMtInit /\ [][AverageMtNext]_vars

\* The samples taken and not stored yet, summed (u128 wide)
RECURSIVE MtInFlight(_)
MtInFlight(n) ==
    IF n = 0 THEN Limbs(0, U128Limbs)
    ELSE wrapping_add(MtInFlight(n - 1),
                      IF apCall[n].pc = "swapped"
                      THEN AsLimbs(apCall[n].collected, U128Limbs)
                      ELSE Limbs(0, U128Limbs))

MtCounted ==
    wrapping_add(wrapping_add(apHist.stored, MtInFlight(ApNumThreads)),
                 AsLimbs(current, U128Limbs))

\* C33: in every interleaving of append and sample_now, the samples taken
\* so far (stored in the ring or about to be) plus the pending counter sum
\* to the values appended, modulo 2^64, and each sample_now writes its sample
\* to exactly one slot of the ring
C33_EveryValueInOneSample ==
    /\ [](AsLimbs(MtCounted, U64Limbs) = AsLimbs(apHist.appended, U64Limbs))
    /\ [][\A t \in ApThreads :
            MtStore(t) =>
                \E i \in 1..Len(ticks.array) :
                    ticks'.array = [ticks.array EXCEPT ![i] = apCall[t].collected]]_vars

C33_Witness ==
    /\ apCall[1].pc = "swapped"
    /\ apCall[2].pc = "swapped"
    /\ apCall[1].collected = U64(1)
    /\ apCall[2].collected = U64_MAX
    /\ current = U64(0)
    /\ apHist.appends = ApMaxAppends
    /\ apHist.stored # Limbs(0, U128Limbs)

\* ---------------------------------------------------------------------
\* Part 11, continued: the sequence of entries one scan emits
\* ---------------------------------------------------------------------

\* The calls of next_file that returned an entry, and the path of the entry
FsSome == { i \in 1..Len(fsRet) : fsRet[i] # None }

FsPath(i) == fsRet[i][1].entry

\* path lies below the directory dir
FsBelow(dir, path) ==
    /\ Len(dir) < Len(path)
    /\ SubSeq(path, 1, Len(dir)) = dir

\* The entries of the tree: every node below the root that the listing of
\* its directory yields as an entry
FsEntries == { p \in DOMAIN fsTree : p # << >> /\ fsTree[p] # "error" }

\* The entries whose file_type() succeeds and that lie below such entries only
FsTypedEntries ==
    { p \in FsEntries : \A n \in 1..Len(p) : fsTree[SubSeq(p, 1, n)] # "badtype" }

\* What C35 says of the order of a scan, whatever set of entries it covers
FsPreOrder ==
    /\ \A i, j \in FsSome : i < j => FsPath(i) # FsPath(j)
    /\ \A i \in FsSome :
          \/ Len(FsPath(i)) = 1
          \/ \E h \in FsSome : h < i /\ FsPath(h) = FsAncestors(FsPath(i))
    /\ \A i, j, k \in FsSome :
          (i < j /\ j < k /\ FsBelow(FsPath(i), FsPath(k))) => FsBelow(FsPath(i), FsPath(j))
    /\ \A i, j \in FsSome :
          FsBelow(FsPath(i), FsPath(j)) =>
              /\ fsTree[FsPath(i)] = "dir"
              /\ fsRet[i][1].dir_name # None
    /\ fsScanner # None /\ fsScanner[1].stack.variant = "Cached" =>
          \A i, j \in FsSome :
              (i < j /\ FsAncestors(FsPath(i)) = FsAncestors(FsPath(j))) =>
                  NameIndex(file_name(FsPath(i))) < NameIndex(file_name(FsPath(j)))
    /\ \A i, j \in 1..Len(fsRet) : (i < j /\ fsRet[i] = None) => fsRet[j] = None

\* C35 as written: one scan emits every entry reachable through directories
\* that open, exactly once and in depth-first pre-order, descending exactly
\* into the directories that open, siblings ascending in cached mode, and
\* returns None on every call after the last entry
C35_EveryEntryOncePreOrder ==
    /\ FsPreOrder
    /\ { FsPath(i) : i \in FsSome } \subseteq FsEntries
    /\ FsSome # 1..Len(fsRet) => { FsPath(i) : i \in FsSome } = FsEntries

\* C35, amended: the same of the entries whose file type can be read
C35_EveryTypedEntryOncePreOrder ==
    /\ FsPreOrder
    /\ { FsPath(i) : i \in FsSome } \subseteq FsTypedEntries
    /\ FsSome # 1..Len(fsRet) => { FsPath(i) : i \in FsSome } = FsTypedEntries

C35_Witness ==
    /\ fsScanner # None
    /\ fsScanner[1].stack.variant = "Cached"
    /\ fsOrder = "Descending"
    /\ Len(fsRet) >= 5
    /\ FsSome = 1..3
    /\ FsPath(1) = << "a" >>
    /\ FsPath(2) = << "a", "b" >>
    /\ FsPath(3) = << "b" >>

\* ------------------------------------------------------------------------
\* Part 11, continued: SaveToBungee over the scanner
\* ------------------------------------------------------------------------

\* What a name converter makes of one entry: its name, the empty string, or
\* None
FsConverts == { "name", "empty", "skip" }

\* The bytes of a file name: "a", "b", ...
NameBytes(name) == << 96 + NameIndex(name) >>

\* (self.name_convert)(&name, fty) on an entry, for a converter conv that
\* goes by the name: conv says what it makes of each name
name_convert(conv, entry) ==
    CASE conv[file_name(entry)] = "skip"  -> None
      [] conv[file_name(entry)] = "empty" -> Some(<< >>)
      [] OTHER                            -> Some(NameBytes(file_name(entry)))

\* DepthFileScanner::save_to_bungee with a bungee_push closure over the arena
\* `bungee` and the converter conv
save_to_bungee(self, bungee, conv) ==
    [ it |-> self, dirs |-> << >>, bungee |-> bungee, name_convert |-> conv ]

\* SaveToBungee::next with dirs.push(None) for every directory entered
RECURSIVE SaveToBungee_next_NoLink(_, _, _)
SaveToBungee_next_NoLink(tree, order, self) ==
    IF self.it.stack.stack = << >> THEN [ self |-> self, ret |-> None ]
    ELSE LET prev == IF self.dirs = << >> THEN None ELSE self.dirs[Len(self.dirs)]
             step == TempIter_next(self.it.stack)
             adv  == [ self EXCEPT !.it.stack = step.stack ]
         IN  IF step.item = None
             THEN SaveToBungee_next_NoLink(tree, order,
                      [ self EXCEPT !.it.stack = StackVariant_pop(@),
                                    !.dirs = VecPop(@) ])
             ELSE LET elem == step.item[1]
                  IN  IF ~elem.ok THEN SaveToBungee_next_NoLink(tree, order, adv)
                      ELSE LET fty  == file_type(tree, elem.value)
                               name == name_convert(self.name_convert, elem.value)
                           IN  IF ~fty.ok \/ name = None
                               THEN SaveToBungee_next_NoLink(tree, order, adv)
                               ELSE LET r    == push(self.bungee, prev, name[1])
                                        iter == read_dir(tree, order, elem.value)
                                        into == FileType_is_dir(fty.value) /\ iter.ok
                                    IN  [ self |->
                                            [ adv EXCEPT
                                                !.bungee = r.data,
                                                !.it.stack = IF into THEN StackVariant_push(@, iter.value)
                                                             ELSE @,
                                                !.dirs = IF into THEN Append(@, None) ELSE @ ],
                                          ret |-> Some(<< r.ret, elem.value, fty.value >>) ]

\* SaveToBungee::next: the SaveToBungee after the call and the returned
\* Option<(Option<BungeeIndex>, DirEntry, FileType)>
RECURSIVE SaveToBungee_next(_, _, _)
SaveToBungee_next(tree, order, self) ==
    IF self.it.stack.stack = << >> THEN [ self |-> self, ret |-> None ]
    ELSE LET prev == IF self.dirs = << >> THEN None ELSE self.dirs[Len(self.dirs)]
             step == TempIter_next(self.it.stack)
             adv  == [ self EXCEPT !.it.stack = step.stack ]
         IN  IF step.item = None
             THEN SaveToBungee_next(tree, order,
                      [ self EXCEPT !.it.stack = StackVariant_pop(@),
                                    !.dirs = VecPop(@) ])
             ELSE LET elem == step.item[1]
                  IN  IF ~elem.ok THEN SaveToBungee_next(tree, order, adv)
                      ELSE LET fty  == file_type(tree, elem.value)
                               name == name_convert(self.name_convert, elem.value)
                           IN  IF ~fty.ok \/ name = None
                               THEN SaveToBungee_next(tree, order, adv)
                               ELSE LET r    == push(self.bungee, prev, name[1])
                                        iter == read_dir(tree, order, elem.value)
                                        into == FileType_is_dir(fty.value) /\ iter.ok
                                    IN  [ self |->
                                            [ adv EXCEPT
                                                !.bungee = r.data,
                                                !.it.stack = IF into THEN StackVariant_push(@, iter.value)
                                                             ELSE @,
                                                !.dirs = IF into THEN Append(@, r.ret) ELSE @ ],
                                          ret |-> Some(<< r.ret, elem.value, fty.value >>) ]

\* scanner.save_to_bungee(|a, b| bungee.push(a, b), conv) with a new
\* BungeeStr, on the scanner as next_file left it
SbSaveToBungee ==
    /\ fsScanner # None
    /\ fsSave = None
    /\ \E conv \in [ { FsNames[i] : i \in 1..Len(FsNames) } -> FsConverts ] :
         fsSave' = Some([ self  |-> save_to_bungee(fsScanner[1], << >>, conv),
                          start |-> Len(fsScanner[1].stack.stack),
                          out   |-> << >> ])
    /\ UNCHANGED << fsTree, fsOrder, fsScanner, fsRet >>
    /\ UNCHANGED notScanner

\* One call of next on the SaveToBungee
SbNext ==
    /\ fsSave # None
    /\ Len(fsSave[1].out) < FsMaxNodes + FsMaxEndCalls
    /\ LET r == SaveToBungee_next(fsTree, fsOrder, fsSave[1].self)
       IN  fsSave' = Some([ fsSave[1] EXCEPT !.self = r.self,
                                             !.out = Append(@, r.ret) ])
    /\ UNCHANGED << fsTree, fsOrder, fsScanner, fsRet >>
    /\ UNCHANGED notScanner

SaveBungeeNext ==
    \/ FsFromDir
    \/ FsNextFile
    \/ SbSaveToBungee
    \/ SbNext

SpecSaveBungee == ScannerInit /\ [][SaveBungeeNext]_vars

\* The tuples next yielded so far, and the index, path and converted name
\* of the i-th
SbSome == IF fsSave = None THEN {}
          ELSE { i \in 1..Len(fsSave[1].out) : fsSave[1].out[i] # None }

SbIndex(i) == fsSave[1].out[i][1][1]

SbPath(i) == fsSave[1].out[i][1][2]

SbName(path) == name_convert(fsSave[1].self.name_convert, path)[1]

\* The converted names of the entry at path and of the directories above it,
\* outermost first
SbNames(path) == [ n \in 1..Len(path) |-> SbName(SubSeq(path, 1, n)) ]

\* dirs has one element less than the scanner's stack while that is non-empty
SbStacksAligned ==
    LET self == fsSave[1].self
    IN  self.it.stack.stack # << >> => Len(self.dirs) + 1 = Len(self.it.stack.stack)

\* The record of the i-th tuple holds the converted name and follows the
\* index yielded for the parent directory
SbLinked(i) ==
    /\ SbIndex(i) # None
    /\ LET rec == reverse_follow(fsSave[1].self.bungee, SbIndex(i)[1])
       IN  /\ rec.data = SbName(SbPath(i))
           /\ IF Len(SbPath(i)) = 1 THEN rec.prev = None
              ELSE \E h \in SbSome : /\ h < i
                                     /\ SbPath(h) = FsAncestors(SbPath(i))
                                     /\ rec.prev = SbIndex(h)

\* path_of("/", index) of the i-th tuple is the converted names down to it
SbPathIsRelative(i) ==
    path_of(fsSave[1].self.bungee, <<47>>, SbIndex(i)[1]) = join(SbNames(SbPath(i)), <<47>>)

\* C34 as stated: every tuple yielded with a non-empty converted name has a
\* record holding that name whose predecessor is the index yielded for the
\* parent directory (none directly under the root), so path_of("/", index)
\* is the entry's path relative to the root; dirs always has one element
\* less than the scanner's directory stack while that stack is non-empty.
C34_RecordsFollowParents ==
    fsSave # None =>
        /\ \A i \in SbSome :
              SbName(SbPath(i)) # << >> => (SbLinked(i) /\ SbPathIsRelative(i))
        /\ SbStacksAligned

\* C34, for a SaveToBungee made while the scanner's stack held no more than
\* the listing of the root: every tuple yielded with a non-empty converted
\* name has a record holding that name whose predecessor is the index
\* yielded for the parent directory, and path_of("/", index) is the entry's
\* path relative to the root if no directory above it was converted to the
\* empty name; dirs has one element less than the stack while that is
\* non-empty.
C34_RecordsFollowParentsFromRoot ==
    (fsSave # None /\ fsSave[1].start <= 1) =>
        /\ \A i \in SbSome :
              SbName(SbPath(i)) # << >> =>
                  /\ SbLinked(i)
                  /\ (\A n \in 1..Len(SbPath(i)) : SbNames(SbPath(i))[n] # << >>)
                        => SbPathIsRelative(i)
        /\ SbStacksAligned

C34_Witness ==
    /\ fsSave # None
    /\ fsSave[1].start = 1
    /\ \E i \in SbSome :
          /\ Len(SbPath(i)) = 2
          /\ SbName(SbPath(i)) # << >>
          /\ SbName(FsAncestors(SbPath(i))) # << >>
          /\ path_of(fsSave[1].self.bungee, <<47>>, SbIndex(i)[1]) = <<97, 47, 98>>
    /\ fsSave[1].out[Len(fsSave[1].out)] = None

\* ------------------------------------------------------------------------
\* Part 6, continued: SumFile::read_next_block over a stream of blocks
\* (file/sum_file.rs, file/codecs.rs).  hcStream is the file, hcIter the
\* SumFile [pos, current_pos] over it, hcYield what read_next_block returned,
\* each with the position it was called at.
\* ------------------------------------------------------------------------

\* enum BlockError
BlockError_NoBlock == [ok |-> FALSE, kind |-> "NoBlock"]

BlockError_UnknownBlockType == [ok |-> FALSE, kind |-> "UnknownBlockType"]

BlockError_Io(e) == [ok |-> FALSE, kind |-> "Io", error |-> e]

\* AnyBlock::Hashes
AnyBlock_Hashes(chunk) == [block |-> "Hashes", chunk |-> chunk]

BlockType_MainHeader == 1

BlockType_Names == 3

\* BlockType::decode_magic: io::Result<Option<BlockType>>
decode_magic(header) ==
    IF SubSeq(header, 1, Len(BLOCK_HEADER_MAGIC)) # BLOCK_HEADER_MAGIC
    THEN Err("InvalidData")
    ELSE LET code == header[Len(BLOCK_HEADER_MAGIC) + 1]
         IN  Ok(IF code \in BlockTypes THEN Some(code) ELSE None)

\* read.read_exact of n bytes from what is left of a stream: how many bytes
\* it takes; it takes all that is left when that is less than n
read_exact_takes(left, n) == IF Len(left) < n THEN Len(left) ELSE n

\* Codec0_0_1::decode_block: [ret, taken: the bytes it read from `read`,
\* panic: NamesChunk::read_body ends in todo!()]
decode_block(first_block, read) ==
    LET block_type == decode_magic(SubSeq(first_block, 1, 4))
    IN  IF ~block_type.ok
        THEN [ret |-> BlockError_Io(block_type.kind), taken |-> 0, panic |-> FALSE]
        ELSE IF block_type.value = None
        THEN [ret |-> BlockError_UnknownBlockType, taken |-> 0, panic |-> FALSE]
        ELSE IF block_type.value[1] = BlockType_Hashes
        THEN LET header == HashesHeader_from_array(first_block)
             IN  IF ~header.ok
                 THEN [ret |-> BlockError_Io(header.kind), taken |-> 0, panic |-> FALSE]
                 ELSE LET chunk == read_body(header.value, read)
                          n     == 64 * from_le_bytes(SubSeq(header.value.size, 1, 4))
                      IN  IF chunk.ok
                          THEN [ret |-> Ok(AnyBlock_Hashes(chunk.value)), taken |-> n,
                                panic |-> FALSE]
                          ELSE [ret |-> BlockError_Io(chunk.kind),
                                taken |-> IF chunk.kind = "Unsupported" THEN 0
                                          ELSE read_exact_takes(read, n),
                                panic |-> FALSE]
        ELSE IF block_type.value[1] = BlockType_Names
        THEN IF SubSeq(first_block, 13, 16) # zero(4)
             THEN [ret |-> BlockError_Io("Unsupported"), taken |-> 0, panic |-> FALSE]
             ELSE [ret |-> None, taken |-> 0, panic |-> TRUE]
        ELSE [ret |-> BlockError_UnknownBlockType, taken |-> 0, panic |-> FALSE]

\* SumFile::new
SumFile_new == [pos |-> 0, current_pos |-> None]

\* SumFile::read_next_block on the file `file`: the SumFile afterwards and
\* what is returned.  No read of an in-memory file fails, so the flag of
\* with_counted_read stays unset and the callback's result is passed on;
\* current_pos grows by what the callback read.
read_next_block(self, file) ==
    LET left == SubSeq(file, self.pos + 1, Len(file))
    IN  IF Len(left) < 64
        THEN [self |-> [self EXCEPT !.pos = Len(file)], ret |-> BlockError_NoBlock,
              panic |-> FALSE]
        ELSE LET count == IF self.current_pos = None THEN 0 ELSE self.current_pos[1]
                 block == decode_block(SubSeq(left, 1, 64), SubSeq(left, 65, Len(left)))
             IN  [self  |-> [pos |-> self.pos + 64 + block.taken,
                             current_pos |-> Some(count + block.taken)],
                  ret   |-> block.ret,
                  panic |-> block.panic]

\* Calls of read_next_block on one SumFile
SfMaxCalls == 3

\* The chunks written into the files
SfChunks ==
    { c \in HcChunks : /\ Len(c.data) <= 1
                       /\ c.data # << >> => c.data[1].id = hLow
                       /\ c.sort \in {"Unordered", "SortedByData"}
                       /\ c.name_hash = "Sha256"
                       /\ c.data_hash = "Blake3" }

\* What is done to the header of a written block: [index, byte] to set
SfEdits == { << 0, 0 >>, << 2, 66 >>, << 3, 0 >>, << 3, 1 >>, << 3, 3 >>, << 3, 7 >>,
             << 3, 254 >>, << 12, 1 >>, << 16, 0 >> }

\* The blocks of the files: written chunks, as they are or with one byte of
\* the header changed
SfBlocks ==
    { HashesChunk_write(c).value : c \in SfChunks }
        \cup { set_slice(HashesChunk_write(c).value, e[1], e[2]) : c \in SfChunks, e \in SfEdits }

\* How many bytes a file lacks at its end
SfCuts == { 0, 1, 63, 64 }

\* The files: up to two blocks, the end cut off or not
SfFiles ==
    LET whole == { << >> } \cup SfBlocks \cup { a \o b : a \in SfBlocks, b \in SfBlocks }
    IN  UNION { { SubSeq(f, 1, Len(f) - n) : n \in { k \in SfCuts : k <= Len(f) } } :
                  f \in whole }

SumFileInit ==
    /\ RunnerIdle
    /\ PmIdle
    /\ LsIdle
    /\ ViIdle
    /\ BgIdle
    /\ DfIdle
    /\ HaIdle
    /\ ApIdle
    /\ CrIdle
    /\ MhIdle
    /\ FsIdle
    /\ ZfIdle
    /\ MsIdle
    /\ hcChunk = None
    /\ hcStream \in SfFiles
    /\ hcRead = None
    /\ hcOp = "none"
    /\ hcIter = None
    /\ hcYield = <<>>

\* SumFile::new(file)
SfNew ==
    /\ hcIter = None
    /\ hcIter' = Some(SumFile_new)
    /\ hcOp' = "new"
    /\ UNCHANGED << hcChunk, hcStream, hcRead, hcYield >>
    /\ UNCHANGED notChunk

\* sum_file.read_next_block(); after a panic nothing more is called
SfReadNextBlock ==
    /\ hcIter # None
    /\ hcOp # "panic"
    /\ Len(hcYield) < SfMaxCalls
    /\ LET r == read_next_block(hcIter[1], hcStream)
       IN  /\ hcIter' = Some(r.self)
           /\ hcOp' = IF r.panic THEN "panic" ELSE "read_next_block"
           /\ hcRead' = IF r.panic THEN None ELSE Some(r.ret)
           /\ hcYield' = IF r.panic THEN hcYield
                         ELSE Append(hcYield, [at |-> hcIter[1].pos, ret |-> r.ret])
    /\ UNCHANGED << hcChunk, hcStream >>
    /\ UNCHANGED notChunk

SumFileNext == SfNew \/ SfReadNextBlock

SpecSumFile == SumFileInit /\ [][SumFileNext]_vars

\* What the file holds from the position of the k-th call on
SfLeft(k) == SubSeq(hcStream, hcYield[k].at + 1, Len(hcStream))

\* The k-th call found the end of the file, after whole blocks only
SfAtEndOfBlocks(k) ==
    /\ hcYield[k].at = Len(hcStream)
    /\ \A j \in 1..(k - 1) : hcYield[j].ret # BlockError_Io("UnexpectedEof")

SfPrefixWrong(k) == Len(SfLeft(k)) >= 64 /\ SubSeq(SfLeft(k), 1, 3) # << 104, 83, 98 >>

SfTypeByte(k) == SfLeft(k)[4]

\* C36, NoBlock: read_next_block returns NoBlock only when the stream is at
\* end of file at a block boundary
SfNoBlockOnlyAtEnd ==
    \A k \in 1..Len(hcYield) :
        hcYield[k].ret = BlockError_NoBlock => SfAtEndOfBlocks(k)

\* C36, the blocks: a block whose magic prefix is not "hSb" fails with an
\* InvalidData I/O error, one whose type byte is unknown or MainHeader with
\* UnknownBlockType, a Hashes block is decoded to the chunk HashesChunk::read
\* returns for the same bytes, and no partial block is returned
SfBlocksDecoded ==
    \A k \in 1..Len(hcYield) :
        LET ret == hcYield[k].ret
        IN  /\ SfPrefixWrong(k) => ret = BlockError_Io("InvalidData")
            /\ (Len(SfLeft(k)) >= 64 /\ ~SfPrefixWrong(k)
                    /\ (SfTypeByte(k) \notin BlockTypes \/ SfTypeByte(k) = BlockType_MainHeader))
                  => ret = BlockError_UnknownBlockType
            /\ (Len(SfLeft(k)) >= 64 /\ ~SfPrefixWrong(k) /\ SfTypeByte(k) = BlockType_Hashes)
                  => LET r == HashesChunk_read(SfLeft(k))
                     IN  IF r.ok THEN ret = Ok(AnyBlock_Hashes(r.value))
                         ELSE ret = BlockError_Io(r.kind)
            /\ ret.ok => hcYield[k].at + 64 + 64 * Len(ret.value.chunk.data) <= Len(hcStream)

\* C36: read_next_block returns NoBlock only when the stream is at end of
\* file at a block boundary; a block whose magic prefix is not "hSb" fails
\* with an InvalidData I/O error, a block whose type byte is unknown or is
\* MainHeader fails with UnknownBlockType, and a Hashes block is decoded to
\* the same chunk HashesChunk::read returns for the same bytes; no partial
\* block is returned.
C36_NoBlockOnlyAtBlockBoundary ==
    /\ SfNoBlockOnlyAtEnd
    /\ SfBlocksDecoded

\* ==========================================================================
\* Part 12: HashZeroChunksFinder (hasher/mod.rs)
\* ==========================================================================

\* Iterator::position on the bytes left in the iterator: the 0-based place of
\* the first byte that is zero (zeroByte) or non-zero (~zeroByte), if any
position(iter, zeroByte) ==
    LET hits == { i \in 1..Len(iter) : (iter[i] = 0) = zeroByte }
    IN  IF hits = {} THEN None
        ELSE Some((CHOOSE i \in hits : \A j \in hits : i <= j) - 1)

\* HashZeroChunksFinder::start_file
start_file == << 0, None, FALSE >>

\* The `while iter.len() > 0` loop of update_file
RECURSIVE update_file_loop(_, _, _)
update_file_loop(state, iter, min_size) ==
    IF Len(iter) = 0 THEN state
    ELSE IF state[2] # None
    THEN LET pos == state[2][1]
             end == position(iter, FALSE)
         IN  IF end # None
             THEN LET index == state[1] + end[1]
                  IN  update_file_loop(
                          IF index - pos >= min_size
                          THEN << index + 1, state[2], TRUE >>
                          ELSE << index + 1, None, state[3] >>,
                          SubSeq(iter, end[1] + 2, Len(iter)), min_size)
             ELSE << state[1] + Len(iter), state[2], state[3] >>
    ELSE LET pos == position(iter, TRUE)
         IN  IF pos # None
             THEN LET index == state[1] + pos[1]
                  IN  update_file_loop(<< index + 1, Some(index), state[3] >>,
                                       SubSeq(iter, pos[1] + 2, Len(iter)), min_size)
             ELSE << state[1] + Len(iter), state[2], state[3] >>

\* update_file that looks for the start of a run anew in every call
update_file_NoCarry(state, data, min_size) ==
    IF state[3] THEN << state[1] + Len(data), state[2], state[3] >>
    ELSE update_file_loop(<< state[1], None, state[3] >>, data, min_size)

\* HashZeroChunksFinder::update_file: the FileState after the call
update_file(state, data, min_size) ==
    IF state[3] THEN << state[1] + Len(data), state[2], state[3] >>
    ELSE update_file_loop(state, data, min_size)

\* The largest min_size, the most bytes given to one call and to one file
ZfMaxMinSize == 3

ZfMaxData == 3

ZfMaxFed == 5

ZfBytes == { 0, 1, 255 }

ZeroFinderInit ==
    /\ RunnerIdle
    /\ PmIdle
    /\ LsIdle
    /\ ViIdle
    /\ BgIdle
    /\ DfIdle
    /\ HaIdle
    /\ HcIdle
    /\ ApIdle
    /\ CrIdle
    /\ MhIdle
    /\ FsIdle
    /\ MsIdle
    /\ zfMinSize \in 0..ZfMaxMinSize
    /\ zfState = <<>>
    /\ zfFed = <<>>

\* let mut state = finder.start_file()
ZfStartFile ==
    /\ zfState' = start_file
    /\ zfFed' = <<>>
    /\ UNCHANGED zfMinSize
    /\ UNCHANGED notZeroFinder

\* finder.update_file(&mut state, data)
ZfUpdateFile ==
    /\ zfState # <<>>
    /\ \E data \in SeqsUpTo(ZfBytes, ZfMaxData) :
         /\ Len(zfFed) + Len(data) <= ZfMaxFed
         /\ zfState' = update_file(zfState, data, zfMinSize)
         /\ zfFed' = zfFed \o data
    /\ UNCHANGED zfMinSize
    /\ UNCHANGED notZeroFinder

ZeroFinderNext == ZfStartFile \/ ZfUpdateFile

SpecZeroFinder == ZeroFinderInit /\ [][ZeroFinderNext]_vars

\* data holds a run of zero bytes, at least min_size long, with a non-zero
\* byte right after it
ZfHasRun(data, min_size) ==
    \E i \in 1..Len(data), j \in 1..(Len(data) - 1) :
        /\ i <= j
        /\ j - i + 1 >= min_size
        /\ \A k \in i..j : data[k] = 0
        /\ data[j + 1] # 0

\* C37: the state after a series of update_file calls is the state one call
\* with the concatenated data gives; its first field is the number of bytes
\* fed and its found flag is set exactly when a run of at least min_size
\* zero bytes followed by a non-zero byte has been fed; once the flag is
\* set, it and the recorded run start never change.
C37_StateDependsOnConcatenation ==
    /\ [](zfState # <<>> =>
            /\ zfState = update_file(start_file, zfFed, zfMinSize)
            /\ zfState[1] = Len(zfFed)
            /\ zfState[3] <=> ZfHasRun(zfFed, zfMinSize))
    /\ [][(ZfUpdateFile /\ zfState[3]) =>
            (zfState'[3] /\ zfState'[2] = zfState[2])]_vars

\* A run of three zero bytes that began in one call and ended in a later one
\* was found
C37_Witness ==
    /\ zfMinSize = 3
    /\ zfFed = << 1, 0, 0, 0, 255 >>
    /\ zfState = << 5, Some(1), TRUE >>

\* ==========================================================================
\* Part 13: MergeSortedWith (utils/sort.rs)
\* ==========================================================================

\* The largest key, the longest listed part of an input, and the calls of
\* next made after the listed items are out
MsMaxKey == 2

MsMaxLen == 2

MsMaxEndCalls == 2

\* An input is a fused iterator over keys in ascending order:
\* [head: the next items, tail: how many further items of key MsMaxKey
\* follow them, exact: whether its size_hint is exact], as
\* head.into_iter().chain(repeat_n(MsMaxKey, tail)) is.
MsHeads ==
    { s \in SeqsUpTo(1..MsMaxKey, MsMaxLen) : \A i \in 1..(Len(s) - 1) : s[i] <= s[i + 1] }

MsInputs == [ head : MsHeads, tail : { USIZE(0), BigSub(USIZE_MAX, USIZE(MsMaxLen)) },
              exact : BOOLEAN ]

\* Iterator::next of an input: [it, item]
input_next(it) ==
    IF it.head # << >> THEN [it |-> [it EXCEPT !.head = Tail(@)], item |-> Some(Head(it.head))]
    ELSE IF it.tail # USIZE(0)
    THEN [it |-> [it EXCEPT !.tail = BigSub(@, USIZE(1))], item |-> Some(MsMaxKey)]
    ELSE [it |-> it, item |-> None]

\* The number of items an input still yields
input_len(it) == BigAdd(USIZE(Len(it.head)), it.tail)

\* Iterator::size_hint of an input: (lower, upper)
input_size_hint(it) ==
    IF it.exact THEN << input_len(it), Some(input_len(it)) >> ELSE << USIZE(0), None >>

\* u16::cmp
compare(a, b) == IF a < b THEN "Less" ELSE IF a > b THEN "Greater" ELSE "Equal"

saturating_add(a, b) == IF IsUsize(BigAdd(a, b)) THEN BigAdd(a, b) ELSE USIZE_MAX

\* MergeSortedWith::new
MergeSortedWith_new(ia, ib) == [ ia |-> ia, ib |-> ib, last |-> None, from_a |-> FALSE ]

\* next_item that leaves from_a as it was when it swaps last
next_item_KeepsFlag(self) ==
    IF self.last = None
    THEN LET a == input_next(self.ia)
             b == input_next(self.ib)
             adv == [ self EXCEPT !.ia = a.it, !.ib = b.it ]
         IN  IF a.item # None /\ b.item # None
             THEN IF compare(a.item[1], b.item[1]) = "Greater"
                  THEN [ self |-> [ adv EXCEPT !.last = a.item, !.from_a = TRUE ], item |-> b.item ]
                  ELSE [ self |-> [ adv EXCEPT !.last = b.item, !.from_a = FALSE ], item |-> a.item ]
             ELSE IF a.item # None THEN [ self |-> adv, item |-> a.item ]
             ELSE [ self |-> adv, item |-> b.item ]
    ELSE IF self.from_a
    THEN LET b == input_next(self.ib)
             adv == [ self EXCEPT !.ib = b.it ]
         IN  IF b.item = None THEN [ self |-> [ adv EXCEPT !.last = None ], item |-> self.last ]
             ELSE IF compare(self.last[1], b.item[1]) = "Greater"
             THEN [ self |-> adv, item |-> b.item ]
             ELSE [ self |-> [ adv EXCEPT !.last = b.item ], item |-> self.last ]
    ELSE LET a == input_next(self.ia)
             adv == [ self EXCEPT !.ia = a.it ]
         IN  IF a.item = None THEN [ self |-> [ adv EXCEPT !.last = None ], item |-> self.last ]
             ELSE IF compare(self.last[1], a.item[1]) = "Greater"
             THEN [ self |-> adv, item |-> a.item ]
             ELSE [ self |-> [ adv EXCEPT !.last = a.item ], item |-> self.last ]

\* MergeSorted::next_item: the MergeSorted after the call and the item
next_item(self) ==
    IF self.last = None
    THEN LET a == input_next(self.ia)
             b == input_next(self.ib)
             adv == [ self EXCEPT !.ia = a.it, !.ib = b.it ]
         IN  IF a.item # None /\ b.item # None
             THEN IF compare(a.item[1], b.item[1]) = "Greater"
                  THEN [ self |-> [ adv EXCEPT !.last = a.item, !.from_a = TRUE ], item |-> b.item ]
                  ELSE [ self |-> [ adv EXCEPT !.last = b.item, !.from_a = FALSE ], item |-> a.item ]
             ELSE IF a.item # None THEN [ self |-> adv, item |-> a.item ]
             ELSE [ self |-> adv, item |-> b.item ]
    ELSE IF self.from_a
    THEN LET b == input_next(self.ib)
             adv == [ self EXCEPT !.ib = b.it ]
         IN  IF b.item = None THEN [ self |-> [ adv EXCEPT !.last = None ], item |-> self.last ]
             ELSE IF compare(self.last[1], b.item[1]) = "Greater"
             THEN [ self |-> adv, item |-> b.item ]
             ELSE [ self |-> [ adv EXCEPT !.last = b.item, !.from_a = FALSE ],
                    item |-> self.last ]
    ELSE LET a == input_next(self.ia)
             adv == [ self EXCEPT !.ia = a.it ]
         IN  IF a.item = None THEN [ self |-> [ adv EXCEPT !.last = None ], item |-> self.last ]
             ELSE IF compare(self.last[1], a.item[1]) = "Greater"
             THEN [ self |-> adv, item |-> a.item ]
             ELSE [ self |-> [ adv EXCEPT !.last = a.item, !.from_a = TRUE ],
                    item |-> self.last ]

\* MergeSorted::size_hint: (lower, upper)
MergeSorted_size_hint(self) ==
    LET a == input_size_hint(self.ia)
        b == input_size_hint(self.ib)
        add == USIZE(IF self.last # None THEN 1 ELSE 0)
        sum == IF a[2] # None /\ b[2] # None THEN checked_add(a[2][1], b[2][1]) ELSE None
    IN  << saturating_add(saturating_add(a[1], b[1]), add),
           IF sum = None THEN None ELSE checked_add(sum[1], add) >>

MergeInit ==
    /\ RunnerIdle
    /\ PmIdle
    /\ LsIdle
    /\ ViIdle
    /\ BgIdle
    /\ DfIdle
    /\ HaIdle
    /\ HcIdle
    /\ ApIdle
    /\ CrIdle
    /\ MhIdle
    /\ FsIdle
    /\ ZfIdle
    /\ msIn \in [ a : MsInputs, b : MsInputs ]
    /\ msIter = None
    /\ msOut = << >>

\* MergeSortedWith::new(a, b, u16::cmp)
MsNew ==
    /\ msIter = None
    /\ msIter' = Some(MergeSortedWith_new(msIn.a, msIn.b))
    /\ UNCHANGED << msIn, msOut >>
    /\ UNCHANGED notMerge

\* merged.next()
MsNextItem ==
    /\ msIter # None
    /\ Len(msOut) < 2 * MsMaxLen + MsMaxEndCalls
    /\ LET r == next_item(msIter[1])
       IN  /\ msIter' = Some(r.self)
           /\ msOut' = Append(msOut, r.item)
    /\ UNCHANGED msIn
    /\ UNCHANGED notMerge

MergeNext == MsNew \/ MsNextItem

SpecMerge == MergeInit /\ [][MergeNext]_vars

\* How many items of key k an input still yields, the MergeSorted still
\* holds, and next has returned
MsInInput(it, k) ==
    BigAdd(USIZE(Cardinality({ i \in 1..Len(it.head) : it.head[i] = k })),
           IF k = MsMaxKey THEN it.tail ELSE USIZE(0))

MsHeld(k) ==
    BigAdd(BigAdd(MsInInput(msIter[1].ia, k), MsInInput(msIter[1].ib, k)),
           USIZE(IF msIter[1].last = Some(k) THEN 1 ELSE 0))

MsYielded(k) == USIZE(Cardinality({ i \in 1..Len(msOut) : msOut[i] = Some(k) }))

\* The number of items still to be yielded
MsRemaining ==
    BigAdd(BigAdd(input_len(msIter[1].ia), input_len(msIter[1].ib)),
           USIZE(IF msIter[1].last # None THEN 1 ELSE 0))

\* Every element of both inputs is yielded exactly once, in non-decreasing
\* order, and then the iterator ends
MsMerges ==
    /\ \A k \in 1..MsMaxKey :
          BigAdd(MsYielded(k), MsHeld(k)) = BigAdd(MsInInput(msIn.a, k), MsInInput(msIn.b, k))
    /\ \A i, j \in 1..Len(msOut) :
          (i < j /\ msOut[i] # None /\ msOut[j] # None) => msOut[i][1] <= msOut[j][1]
    /\ \A i \in 1..Len(msOut) :
          msOut[i] = None =>
              /\ MsRemaining = USIZE(0)
              /\ \A j \in i..Len(msOut) : msOut[j] = None

====
